---- MODULE Spec2Model ----
(***************************************************************************)
(* A model of the live-chat protocol engine of BiliLiveBot:                *)
(*   - the frame codec of core/danmaku.py (PacketHeader, _handle_packet,   *)
(*     _handle_message, _parse_messages, _dispatch_message),               *)
(*   - the session of DanmakuClient (connect, disconnect, the heartbeat,   *)
(*     receive and reconnect tasks),                                       *)
(*   - the reconnect loop of EnhancedDanmakuClient.                        *)
(* Bytes are the integers 0..255, byte strings are sequences of bytes.     *)
(* A 32-bit unsigned field is kept as its two 16-bit halves [hi, lo], so   *)
(* that every value 0..2^32-1 is represented exactly.                      *)
(***************************************************************************)
EXTENDS Integers, Sequences, FiniteSets, TLC

Min(a, b) == IF a <= b THEN a ELSE b

MinOf(S) == CHOOSE x \in S : \A y \in S : x <= y

RECURSIVE Concat(_)
Concat(seqs) == IF seqs = << >> THEN << >> ELSE Head(seqs) \o Concat(Tail(seqs))

\* Python slice data[a:b] for 0 <= a, with b clipped to the length.
Slice(data, a, b) == SubSeq(data, a + 1, Min(b, Len(data)))

\* Python slice data[a:].
SliceFrom(data, a) == SubSeq(data, a + 1, Len(data))

(***************************************************************************)
(* Unsigned integers of struct '>I2H2I'.                                   *)
(***************************************************************************)
u32(n) == [hi |-> n \div 65536, lo |-> n % 65536]

unpack_u32(data, i) ==
    [hi |-> data[i] * 256 + data[i + 1], lo |-> data[i + 2] * 256 + data[i + 3]]

unpack_u16(data, i) == data[i] * 256 + data[i + 1]

pack_u32(v) == << v.hi \div 256, v.hi % 256, v.lo \div 256, v.lo % 256 >>

pack_u16(n) == << n \div 256, n % 256 >>

\* a <= v <= b for a u32 v and bounds below 65536.
u32_between(v, a, b) == v.hi = 0 /\ a <= v.lo /\ v.lo <= b

(***************************************************************************)
(* Operation codes.                                                        *)
(***************************************************************************)
HANDSHAKE_REPLY == 1
HEARTBEAT == 2
HEARTBEAT_REPLY == 3
SEND_MSG_REPLY == 5
AUTH == 7
AUTH_REPLY == 8

(***************************************************************************)
(* PacketHeader.                                                           *)
(***************************************************************************)
to_bytes_little(h) ==
    << h.packet_length.lo % 256, h.packet_length.lo \div 256,
       h.packet_length.hi % 256, h.packet_length.hi \div 256 >>
        \o pack_u16(h.header_length)
        \o pack_u16(h.protocol_version) \o pack_u32(h.operation)
        \o pack_u32(h.sequence_id)

to_bytes(h) ==
    pack_u32(h.packet_length) \o pack_u16(h.header_length)
        \o pack_u16(h.protocol_version) \o pack_u32(h.operation)
        \o pack_u32(h.sequence_id)

\* Defined for Len(data) >= 16; shorter data raises ValueError (header_fits).
from_bytes(data) ==
    [packet_length    |-> unpack_u32(data, 1),
     header_length    |-> unpack_u16(data, 5),
     protocol_version |-> unpack_u16(data, 7),
     operation        |-> unpack_u32(data, 9),
     sequence_id      |-> unpack_u32(data, 13)]

header_fits(data) == Len(data) >= 16

\* A frame as the server builds it: header followed by the body.
make_frame(operation, protocol_version, body) ==
    to_bytes([packet_length    |-> u32(Len(body) + 16),
              header_length    |-> 16,
              protocol_version |-> protocol_version,
              operation        |-> u32(operation),
              sequence_id      |-> u32(1)]) \o body

(***************************************************************************)
(* _handle_packet: the scan of the session buffer.                         *)
(***************************************************************************)
max_errors == 5

max_packet_length == 10000

max_operation == 1000

valid_header_lax(h) ==
    /\ u32_between(h.packet_length, 16, max_packet_length)
    /\ u32_between(h.operation, 0, max_operation)

valid_header(h) ==
    /\ u32_between(h.packet_length, 16, max_packet_length)
    /\ h.header_length = 16
    /\ u32_between(h.operation, 0, max_operation)

\* The number of candidate offsets one scan tests: range(min(16, ...)).
sync_window(buffer_len, offset) == Min(16, buffer_len - offset - 16)

\* The candidate offsets (relative to offset) that hold an acceptable header.
sync_hits(buffer, offset) ==
    { s \in 0 .. (sync_window(Len(buffer), offset) - 1) :
        /\ header_fits(SliceFrom(buffer, offset + s))
        /\ valid_header(from_bytes(SliceFrom(buffer, offset + s))) }

\* What is left in the buffer when the loop is left at offset.
scan_result(buffer, offset, error_count, frames) ==
    [frames |-> frames,
     rest   |-> IF error_count >= max_errors THEN << >>
                ELSE SliceFrom(buffer, offset)]

RECURSIVE scan_packets(_, _, _, _)
scan_packets(buffer, offset, error_count, frames) ==
    LET buffer_len == Len(buffer) IN
    IF ~(offset < buffer_len /\ error_count < max_errors)
    THEN scan_result(buffer, offset, error_count, frames)
    ELSE IF buffer_len - offset < 16
    THEN scan_result(buffer, offset, error_count, frames)
    ELSE LET hits == sync_hits(buffer, offset) IN
         IF hits = {}
         THEN scan_packets(buffer, offset + 1, error_count + 1, frames)
         ELSE LET test_offset == offset + MinOf(hits)
                  header == from_bytes(SliceFrom(buffer, test_offset))
                  length == header.packet_length.lo
              IN  IF buffer_len - test_offset < length
                  THEN scan_result(buffer, test_offset, error_count, frames)
                  ELSE scan_packets(buffer, test_offset + length, 0,
                         Append(frames,
                           [operation        |-> header.operation.lo,
                            protocol_version |-> header.protocol_version,
                            body |-> Slice(buffer, test_offset + 16,
                                           test_offset + length)]))

\* The frames one call handles, in order, and the bytes it leaves.
handle_packet(buffer) == scan_packets(buffer, 0, 0, << >>)

(***************************************************************************)
(* zlib.decompress, on the streams the model builds: a zlib header, one    *)
(* final stored (uncompressed) deflate block and the Adler-32 of the data. *)
(* Bytes after the end of the stream are ignored, as zlib.decompress does. *)
(* Every other input of the model fails the header check, is truncated or  *)
(* fails the data check, and raises zlib.error.                            *)
(***************************************************************************)
\* Adler-32: a is 1 plus the sum of the bytes, b the sum of the values a
\* takes after each byte, both modulo 65521.  sums(lo, hi) is the sum s of
\* data[lo..hi] and the sum w of the partial sums of s, halving the range.
adler32(data) ==
    LET RECURSIVE sums(_, _)
        sums(lo, hi) ==
            IF lo > hi THEN [s |-> 0, w |-> 0]
            ELSE IF lo = hi THEN [s |-> data[lo], w |-> data[lo]]
            ELSE LET mid == (lo + hi) \div 2
                     l == sums(lo, mid)
                     r == sums(mid + 1, hi)
                 IN  [s |-> (l.s + r.s) % 65521,
                      w |-> (l.w + (hi - mid) * l.s + r.w) % 65521]
        all == sums(1, Len(data))
    IN  pack_u16((Len(data) + all.w) % 65521) \o pack_u16((1 + all.s) % 65521)

zlib_compress(data) ==
    << 120, 1, 1, Len(data) % 256, Len(data) \div 256,
       255 - (Len(data) % 256), 255 - (Len(data) \div 256) >>
        \o data \o adler32(data)

zlib_error == [ok |-> FALSE, data |-> << >>]

zlib_decompress(body) ==
    IF Len(body) < 2 THEN zlib_error
    ELSE IF \/ (body[1] * 256 + body[2]) % 31 # 0
            \/ body[1] % 16 # 8
            \/ body[1] \div 16 > 7
            \/ (body[2] \div 32) % 2 = 1 THEN zlib_error
    ELSE IF Len(body) < 7 THEN zlib_error
    ELSE IF body[3] # 1 THEN zlib_error
    ELSE LET len == body[4] + 256 * body[5] IN
         IF body[6] # 255 - body[4] \/ body[7] # 255 - body[5] THEN zlib_error
         ELSE IF Len(body) < 7 + len + 4 THEN zlib_error
         ELSE LET data == SubSeq(body, 8, 7 + len) IN
              IF SubSeq(body, 8 + len, 11 + len) # adler32(data) THEN zlib_error
              ELSE [ok |-> TRUE, data |-> data]

(***************************************************************************)
(* brotli.decompress, on the streams the model builds (RFC 7932): the      *)
(* one-bit window header, one uncompressed meta-block (ISLAST 0, MNIBBLES  *)
(* 0, MLEN - 1 in 16 bits, ISUNCOMPRESSED 1, padding to the byte) and the  *)
(* empty last meta-block (byte 3).  Every other input of the model has     *)
(* another header, is truncated or has bytes after the end of the stream,  *)
(* and raises brotli.error.                                                *)
(***************************************************************************)
brotli_compress(data) ==
    IF data = << >> THEN << 6 >>
    ELSE << ((Len(data) - 1) % 16) * 16,
            ((Len(data) - 1) \div 16) % 256,
            16 + ((Len(data) - 1) \div 4096) >>
           \o data \o << 3 >>

brotli_error == [ok |-> FALSE, data |-> << >>]

brotli_decompress(body) ==
    IF body = << 6 >> THEN [ok |-> TRUE, data |-> << >>]
    ELSE IF Len(body) < 4 THEN brotli_error
    ELSE IF body[1] % 16 # 0 \/ body[3] \div 16 # 1 THEN brotli_error
    ELSE LET len == 1 + (body[1] \div 16) + 16 * body[2]
                      + 4096 * (body[3] % 16) IN
         IF Len(body) # 3 + len + 1 THEN brotli_error
         ELSE IF body[4 + len] # 3 THEN brotli_error
         ELSE [ok |-> TRUE, data |-> SubSeq(body, 4, 3 + len)]

(***************************************************************************)
(* json.loads / json text, on the commands of the model.                   *)
(***************************************************************************)
\* The ASCII text of a string.
txt_hi == << 104, 105 >>

txt_yo == << 121, 111 >>

txt_ab == << 97, 98 >>

\* A DANMU_MSG command as json.loads returns it: info = [meta, content, user].
danmu_msg(uid, uname, content) ==
    [cmd |-> "DANMU_MSG", info |-> << << >>, content, << uid, uname, 0, 0, 0 >> >>]

Uids == {7, 8}

Unames == {txt_ab}

Contents == {txt_hi, txt_yo}

Commands == { danmu_msg(uid, uname, content) :
                uid \in Uids, uname \in Unames, content \in Contents }

\* {"cmd":"DANMU_MSG","info":[[],"<content>",[<uid>,"<uname>",0,0,0]]}
json_text(msg) ==
    << 123, 34, 99, 109, 100, 34, 58, 34, 68, 65, 78, 77, 85, 95, 77, 83, 71,
       34, 44, 34, 105, 110, 102, 111, 34, 58, 91, 91, 93, 44, 34 >>
      \o msg.info[2] \o << 34, 44, 91 >> \o << 48 + msg.info[3][1] >>
      \o << 44, 34 >> \o msg.info[3][2]
      \o << 34, 44, 48, 44, 48, 44, 48, 93, 93, 125 >>

\* json.loads raises JSONDecodeError on every text that is no command text.
json_valid(text) == \E msg \in Commands : json_text(msg) = text

json_loads(text) == CHOOSE msg \in Commands : json_text(msg) = text

(***************************************************************************)
(* _handle_danmaku, _dispatch_message, _parse_messages, _handle_message.   *)
(* Each returns the callback invocations it makes, in order.               *)
(***************************************************************************)
handle_danmaku(msg, callbacks) ==
    LET info == msg.info IN
    IF Len(info) < 3 THEN << >>
    ELSE IF Len(info[3]) < 5 THEN << >>
    ELSE IF "on_danmaku" \in callbacks
         THEN << [callback |-> "on_danmaku", uid |-> info[3][1],
                  uname |-> info[3][2], content |-> info[2]] >>
         ELSE << >>

dispatch_message(msg, callbacks) ==
    IF msg.cmd = "DANMU_MSG" THEN handle_danmaku(msg, callbacks)
    ELSE << >>

\* One pass of the while loop of _parse_messages; hang is TRUE when an
\* iteration leaves offset unchanged, so that the loop never ends.  The
\* JSON text 1 is loaded as an int: msg.get raises AttributeError in
\* _dispatch_message, and the except branch of the loop leaves the loop.
RECURSIVE parse_loop(_, _, _, _)
parse_loop(data, offset, events, callbacks) ==
    IF ~(offset < Len(data)) THEN [events |-> events, hang |-> FALSE]
    ELSE IF ~header_fits(SliceFrom(data, offset))
    THEN [events |-> events, hang |-> FALSE]
    ELSE LET header == from_bytes(SliceFrom(data, offset))
             far == header.packet_length.hi > 0
             stop == IF far THEN Len(data) ELSE offset + header.packet_length.lo
             body == IF stop <= offset + 16 THEN << >>
                     ELSE Slice(data, offset + 16, stop)
             found == IF /\ header.operation = u32(SEND_MSG_REPLY)
                         /\ json_valid(body)
                      THEN dispatch_message(json_loads(body), callbacks)
                      ELSE << >>
         IN  IF header.operation = u32(SEND_MSG_REPLY) /\ body = << 49 >>
             THEN [events |-> events, hang |-> FALSE]
             ELSE IF stop = offset
             THEN [events |-> events \o found, hang |-> TRUE]
             ELSE parse_loop(data, stop, events \o found, callbacks)

parse_messages(data, callbacks) == parse_loop(data, 0, << >>, callbacks)

nothing_parsed == [events |-> << >>, hang |-> FALSE]

handle_message_inflating(body, protocol_version, callbacks, brotli_installed) ==
    IF protocol_version \in {2, 3} /\ zlib_decompress(body).ok
    THEN parse_messages(zlib_decompress(body).data, callbacks)
    ELSE IF protocol_version \in {2, 3} THEN nothing_parsed
    ELSE parse_messages(body, callbacks)

handle_message(body, protocol_version, callbacks, brotli_installed) ==
    IF protocol_version = 0 THEN parse_messages(body, callbacks)
    ELSE IF protocol_version = 2 \/ (protocol_version = 3 /\ ~brotli_installed)
    THEN IF zlib_decompress(body).ok
         THEN parse_messages(zlib_decompress(body).data, callbacks)
         ELSE nothing_parsed
    ELSE IF protocol_version = 3
    THEN IF brotli_decompress(body).ok
         THEN parse_messages(brotli_decompress(body).data, callbacks)
         ELSE nothing_parsed
    ELSE parse_messages(body, callbacks)

frame_events_little(frame, callbacks, brotli_installed) ==
    IF frame.operation = HEARTBEAT_REPLY
    THEN IF Len(frame.body) = 4 /\ "on_online" \in callbacks
         THEN << [callback |-> "on_online",
                  online |-> [hi |-> frame.body[4] * 256 + frame.body[3],
                              lo |-> frame.body[2] * 256 + frame.body[1]]] >>
         ELSE << >>
    ELSE IF frame.operation = SEND_MSG_REPLY
    THEN handle_message(frame.body, frame.protocol_version, callbacks,
                        brotli_installed).events
    ELSE << >>

\* The callbacks one handled frame invokes.
frame_events(frame, callbacks, brotli_installed) ==
    IF frame.operation = HEARTBEAT_REPLY
    THEN IF Len(frame.body) = 4 /\ "on_online" \in callbacks
         THEN << [callback |-> "on_online", online |-> unpack_u32(frame.body, 1)] >>
         ELSE << >>
    ELSE IF frame.operation = SEND_MSG_REPLY
    THEN handle_message(frame.body, frame.protocol_version, callbacks,
                        brotli_installed).events
    ELSE << >>

RECURSIVE frames_events_reversed(_, _, _)
frames_events_reversed(frames, callbacks, brotli_installed) ==
    IF frames = << >> THEN << >>
    ELSE frames_events_reversed(Tail(frames), callbacks, brotli_installed)
           \o frame_events(Head(frames), callbacks, brotli_installed)

RECURSIVE frames_events(_, _, _)
frames_events(frames, callbacks, brotli_installed) ==
    IF frames = << >> THEN << >>
    ELSE frame_events(Head(frames), callbacks, brotli_installed)
           \o frames_events(Tail(frames), callbacks, brotli_installed)

(***************************************************************************)
(* The codec under test: _handle_packet called on buffers built from the   *)
(* frames below.                                                           *)
(***************************************************************************)
MaxFrames == 2

AllCallbacks == {"on_danmaku", "on_online"}

chat == danmu_msg(7, txt_ab, txt_hi)

\* The frames the server sends in the model, as (operation, version, body).
ServerFrames ==
    { [operation |-> AUTH_REPLY, protocol_version |-> 0, body |-> << >>],
      [operation |-> AUTH_REPLY, protocol_version |-> 0, body |-> << 123 >>],
      [operation |-> HEARTBEAT_REPLY, protocol_version |-> 0,
       body |-> pack_u32(u32(42))],
      [operation |-> SEND_MSG_REPLY, protocol_version |-> 0,
       body |-> json_text(chat)],
      [operation |-> SEND_MSG_REPLY, protocol_version |-> 0,
       body |-> make_frame(SEND_MSG_REPLY, 0, json_text(chat))] }

frame_bytes(f) == make_frame(f.operation, f.protocol_version, f.body)

RECURSIVE frames_bytes(_)
frames_bytes(fs) ==
    IF fs = << >> THEN << >> ELSE frame_bytes(Head(fs)) \o frames_bytes(Tail(fs))

FrameLists == UNION { [1 .. n -> ServerFrames] : n \in 0 .. MaxFrames }

GarbageBytes == {0, 1, 16, 255}

VARIABLES
    buffer,     \* DanmakuClient.buffer
    handled,    \* the frames the last call of _handle_packet handled
    delivered,  \* the callback invocations of the last call
    fed,        \* how the input of the last call was built
    ws,                  \* DanmakuClient.ws: 0 (None) or a socket
    running,             \* DanmakuClient.running
    auto_reconnect,      \* DanmakuClient.auto_reconnect
    reconnect_attempts,  \* DanmakuClient.reconnect_attempts
    heartbeat_task,      \* DanmakuClient.heartbeat_task: 0 (None) or a task
    receive_task,        \* DanmakuClient.receive_task
    reconnect_task,      \* DanmakuClient.reconnect_task
    callbacks,           \* the event callbacks that are not None
    http_client,         \* DanmakuClient.http_client: 0 (None) or a client
    http_open,           \* the HTTP clients created and not closed
    sockets,             \* the state of every WebSocket opened so far
    tasks,               \* the coroutines: the owner (1) and the created tasks
    event,               \* what the last step did
    enhanced,               \* the client is an EnhancedDanmakuClient
    enable_auto_reconnect,  \* EnhancedDanmakuClient.enable_auto_reconnect
    retry_delay,            \* EnhancedDanmakuClient.retry_delay
    exponential_backoff,    \* EnhancedDanmakuClient.exponential_backoff
    retry_count,            \* EnhancedDanmakuClient.retry_count
    is_reconnecting,        \* EnhancedDanmakuClient.is_reconnecting
    sequences,              \* the calls of EnhancedDanmakuClient.auto_reconnect
    danmaku_client,      \* server.py: the global handle, 0 (None) or a client
    clients,             \* server.py: the DanmakuClients made so far
    handlers,            \* server.py: the coroutines that use the handle
    plugins,             \* PluginManager.plugins, in insertion order
    plugin_states,       \* PluginManager.plugin_states
    instances,           \* the plugin instances made so far
    lifecycle,           \* what the last registry operation did
    dispatch,            \* the call of PluginManager.process_event
    scan,                \* the call of _handle_packet, loop by loop
    packed,              \* a PacketHeader, its to_bytes() and from_bytes() of it
    parsed,              \* a record and what parse_interact_word_v2 returns for it
    user_first_seen,     \* DanmakuClient.user_first_seen, as << uid, name >> pairs
    user_enter_history,  \* DanmakuClient.user_enter_history, as << uid, name >> keys
    dispatched,          \* the last call of _dispatch_message and what it invoked
    applied,             \* a function of the program, its argument and its result
    sender,              \* danmaku_sender.py: _danmaku_sender and its fields
    sending              \* the clock and the calls of send_danmaku so far

codec_vars == << buffer, handled, delivered, fed >>

client_vars == << ws, running, auto_reconnect, reconnect_attempts,
                  heartbeat_task, receive_task, reconnect_task, callbacks,
                  http_client, http_open >>

enhanced_vars == << enhanced, enable_auto_reconnect, retry_delay, exponential_backoff,
                    retry_count, is_reconnecting, sequences >>

room_vars == << danmaku_client, clients, handlers >>

plugin_vars == << plugins, plugin_states, instances, lifecycle, dispatch >>

first_units == << scan, packed, parsed, user_first_seen, user_enter_history,
                 dispatched >>

sender_vars == << sender, sending >>

later_vars == << applied, sender_vars >>

unit_vars == << first_units, later_vars >>

server_vars == << room_vars, plugin_vars, unit_vars >>

session_vars == << codec_vars, client_vars, sockets, tasks, event,
                   enhanced_vars, unit_vars >>

vars == << buffer, handled, delivered, fed, ws, running, auto_reconnect,
           reconnect_attempts, heartbeat_task, receive_task, reconnect_task,
           callbacks, http_client, http_open, sockets, tasks, event,
           enhanced, enable_auto_reconnect, retry_delay, exponential_backoff,
           retry_count, is_reconnecting, sequences, danmaku_client, clients,
           handlers, plugins, plugin_states, instances, lifecycle, dispatch,
           scan, packed, parsed, user_first_seen, user_enter_history,
           dispatched, applied, sender, sending >>

\* A coroutine: the owner's call chain or a task made by create_task.
\*   pc      where it is suspended,
\*   cancel  Task.cancel() was called and CancelledError is not yet raised,
\*   sock    the socket of the pending recv / send / close,
\*   waiting the tasks disconnect() waits for,
\*   calls   the connect() calls of a reconnect sequence so far,
\*   delays  the back-off delays it has slept (or is sleeping),
\*   outcome what the owner's connect() returned,
\*   opened  the socket the connect() call in progress has opened.
new_task(kind) ==
    [kind |-> kind, pc |-> "start", cancel |-> FALSE, sock |-> 0,
     waiting |-> {}, calls |-> 0, delays |-> << >>, outcome |-> "none",
     opened |-> 0]

no_event == [kind |-> "none", task |-> 0]

\* The callbacks connect_room registers, and on_disconnect.
ServerCallbacks ==
    {"on_danmaku", "on_gift", "on_superchat", "on_guard", "on_interact",
     "on_online"}

\* DanmakuClient.__init__, then the owner's registration of its callbacks.
ClientInit ==
    /\ ws = 0
    /\ running = FALSE
    /\ auto_reconnect = TRUE
    /\ reconnect_attempts = 0
    /\ heartbeat_task = 0
    /\ receive_task = 0
    /\ reconnect_task = 0
    /\ http_client = 0
    /\ http_open = {}
    /\ sockets = << >>
    /\ tasks = << [new_task("owner") EXCEPT !.pc = "new"] >>
    /\ event = no_event

\* server.py before any room is connected: the server side is the subject
\* of its own specification.
MaxClients == 2

MaxHandlers == 2

\* DanmakuClient.__init__: ws None, running False, no task, no HTTP client.
new_client == [ws |-> "none", running |-> FALSE, loops |-> FALSE, http |-> FALSE]

\* A coroutine of the server: what it runs (op), where it is suspended (pc),
\* the client whose connect() or disconnect() it is in (self), and what it
\* does when disconnect() has returned (then): it makes the new client of
\* connect_room or auto_connect_room, or it sets danmaku_client to None.
new_handler == [op |-> "none", pc |-> "idle", self |-> 0, then |-> "none"]

\* The plugin files of the plugin directory; each declares its file stem as
\* its name, the case in which reload_plugin finds the file of a plugin.
MaxPlugins == 2

PluginFiles == 1 .. MaxPlugins

\* The plugin instances one run makes: the loads and the reloads.
MaxInstances == 2

\* The last step was no registry operation of the PluginManager.
no_lifecycle == [op |-> "none", name |-> 0, old |-> 0, new |-> 0, hooks |-> {}]

\* No call of _handle_packet is under way.
no_scan ==
    [pc |-> "idle", input |-> << >>, buffer |-> << >>, offset |-> 0,
     error_count |-> 0, skips |-> 0, tested |-> 0, accepted |-> << >>]

\* No call of process_event is in progress or has just returned.
no_dispatch == [pc |-> "idle", i |-> 0, result_data |-> {}, log |-> << >>]

\* server.py at import: no client; PluginManager.__init__: no plugin, no
\* plugin_states.json yet.
\* DanmakuSender.__init__: the defaults of the sender's configuration.
min_interval == 3

max_length == 40

max_duplicate == 3

\* _is_duplicate keeps the sends of the last 300 seconds, send() the last 10.
history_seconds == 300

history_kept == 10

ServerInit ==
    /\ danmaku_client = 0
    /\ clients = << >>
    /\ handlers = [h \in 1 .. MaxHandlers |-> new_handler]
    /\ plugins = << >>
    /\ plugin_states = [f \in PluginFiles |-> "unset"]
    /\ instances = 0
    /\ lifecycle = no_lifecycle
    /\ dispatch = no_dispatch
    /\ scan = no_scan
    /\ packed = [kind |-> "none"]
    /\ parsed = [kind |-> "none"]
    /\ user_first_seen = {}
    /\ user_enter_history = {}
    /\ dispatched = [n |-> 0, cmd |-> "", events |-> << >>]
    /\ applied = [kind |-> "none"]
    /\ sender = [made |-> FALSE]
    /\ sending = [now |-> min_interval, calls |-> << >>]

\* The defaults of the reconnect section of the configuration.
retry_delay_seconds == 5

max_retries == 5

\* EnhancedDanmakuClient.__init__ after DanmakuClient.__init__; a
\* DanmakuClient (is_enhanced false) makes no use of these fields.
EnhancedInit(is_enhanced, enable, delay, exponential) ==
    /\ enhanced = is_enhanced
    /\ enable_auto_reconnect = enable
    /\ retry_delay = delay
    /\ exponential_backoff = exponential
    /\ retry_count = 0
    /\ is_reconnecting = FALSE
    /\ sequences = << >>

CodecInit ==
    /\ ClientInit
    /\ ServerInit
    /\ EnhancedInit(FALSE, TRUE, retry_delay_seconds, TRUE)
    /\ callbacks = AllCallbacks
    /\ buffer = << >>
    /\ handled = << >>
    /\ delivered = << >>
    /\ fed = [kind |-> "none", frames |-> << >>, tail |-> << >>, garbage |-> << >>]

\* One call of _handle_packet(input) on the fresh buffer of a session.
CallWith(input, how, brotli_installed) ==
    LET result == handle_packet(input) IN
    /\ fed.kind = "none"
    /\ buffer' = result.rest
    /\ handled' = result.frames
    /\ delivered' = frames_events(result.frames, callbacks, brotli_installed)
    /\ fed' = how
    /\ UNCHANGED << client_vars, sockets, tasks, event >>
    /\ UNCHANGED << enhanced_vars, server_vars >>

\* The frames of versions 0 of the actions below do not depend on brotli.
Call(input, how) == CallWith(input, how, FALSE)

\* N complete frames followed by a proper prefix of one more frame.
FeedFrames ==
    \E fs \in FrameLists, next \in ServerFrames :
      \E k \in 0 .. (Len(frame_bytes(next)) - 1) :
        LET tail == SubSeq(frame_bytes(next), 1, k) IN
        Call(frames_bytes(fs) \o tail,
             [kind |-> "frames", frames |-> fs, tail |-> tail, garbage |-> << >>])

\* One corrupted byte in front of one complete frame.
FeedCorrupted ==
    \E g \in GarbageBytes, f \in ServerFrames :
        Call(<< g >> \o frame_bytes(f),
             [kind |-> "corrupted", frames |-> << f >>, tail |-> << >>,
              garbage |-> << g >>])

\* One message-push frame of version 0 whose body is the JSON text of a chat
\* command (raw), or one inner frame holding that text (nested).
FeedChat ==
    \E msg \in Commands, nested \in BOOLEAN :
        LET body == IF nested THEN make_frame(SEND_MSG_REPLY, 0, json_text(msg))
                    ELSE json_text(msg)
            f == [operation |-> SEND_MSG_REPLY, protocol_version |-> 0,
                  body |-> body]
        IN  Call(frame_bytes(f),
                 [kind |-> IF nested THEN "chat_nested" ELSE "chat_raw",
                  frames |-> << f >>, tail |-> << >>, garbage |-> << >>,
                  msg |-> msg])

\* A new session starts with an empty buffer.
NewSession ==
    /\ fed.kind # "none"
    /\ buffer' = << >>
    /\ handled' = << >>
    /\ delivered' = << >>
    /\ fed' = [kind |-> "none", frames |-> << >>, tail |-> << >>, garbage |-> << >>]
    /\ UNCHANGED << client_vars, sockets, tasks, event >>
    /\ UNCHANGED << enhanced_vars, server_vars >>

\* The protocol versions of the frames: 0, 2 and 3 are the ones dispatched
\* on, 1 and 4 are two of the others.
Versions == {0, 1, 2, 3, 4}

\* How the server built the body of a frame from the inner frames: as they
\* are, as a zlib stream or as a brotli stream, whole or with the last
\* byte of the stream overwritten.
Encodings == {"raw", "zlib", "brotli", "zlib_damaged", "brotli_damaged"}

\* What the server put into the payload of a message-push frame:
\*   plain        one inner frame holding the JSON text of a chat command,
\*   compressed   one inner frame of version 2 holding the zlib stream of
\*                such an inner frame,
\*   bad_header   the plain inner frame with header_length 17,
\*   broken_then  an inner frame holding the text { and then the plain one,
\*   number_then  an inner frame holding the text 1 and then the plain one,
\*   two_inner    the inner frames of two chat commands,
\*   two_frames   two message-push frames, one chat command in each.
Shapes == {"plain", "compressed", "bad_header", "broken_then", "number_then",
           "two_inner", "two_frames"}

\* One message-push frame of any version (two for two_frames) whose payload
\* has one of the shapes, encoded in any of the ways; the brotli module is
\* installed or not.
FeedMessage ==
    \E msg \in Commands, msg2 \in Commands, version \in Versions,
       encoding \in Encodings, shape \in Shapes, brotli_installed \in BOOLEAN :
        LET inner(m) == make_frame(SEND_MSG_REPLY, 0, json_text(m))
            payload ==
                CASE shape = "plain" -> inner(msg)
                  [] shape = "compressed" ->
                         make_frame(SEND_MSG_REPLY, 2, zlib_compress(inner(msg)))
                  [] shape = "bad_header" -> [inner(msg) EXCEPT ![6] = 17]
                  [] shape = "broken_then" ->
                         make_frame(SEND_MSG_REPLY, 0, << 123 >>) \o inner(msg)
                  [] shape = "number_then" ->
                         make_frame(SEND_MSG_REPLY, 0, << 49 >>) \o inner(msg)
                  [] shape = "two_inner" -> inner(msg) \o inner(msg2)
                  [] shape = "two_frames" -> inner(msg)
            damaged(stream) == [stream EXCEPT ![Len(stream)] = (@ + 1) % 256]
            body(data) ==
                CASE encoding = "raw" -> data
                  [] encoding = "zlib" -> zlib_compress(data)
                  [] encoding = "brotli" -> brotli_compress(data)
                  [] encoding = "zlib_damaged" -> damaged(zlib_compress(data))
                  [] encoding = "brotli_damaged" ->
                         damaged(brotli_compress(data))
            push(data) == [operation |-> SEND_MSG_REPLY,
                           protocol_version |-> version, body |-> body(data)]
            fs == IF shape = "two_frames"
                  THEN << push(payload), push(inner(msg2)) >>
                  ELSE << push(payload) >>
        IN  /\ shape \notin {"two_inner", "two_frames"} => msg2 = msg
            /\ CallWith(frames_bytes(fs),
                        [kind |-> "message", frames |-> fs, tail |-> << >>,
                         garbage |-> << >>, msg |-> msg, msg2 |-> msg2,
                         shape |-> shape, encoding |-> encoding,
                         brotli_installed |-> brotli_installed],
                        brotli_installed)

CodecNext == FeedFrames \/ FeedCorrupted \/ FeedChat \/ NewSession

CodecSpec == CodecInit /\ [][CodecNext]_vars

\* The viewer counts of the heartbeat replies and the sizes of their bodies.
OnlineCounts ==
    { u32(0), u32(42), [hi |-> 258, lo |-> 772], [hi |-> 65535, lo |-> 65535] }

BodySizes == {0, 3, 4, 5}

\* One heartbeat reply, alone or between an authentication reply and a chat
\* command.
FeedHeartbeat ==
    \E online \in OnlineCounts, size \in BodySizes, amid \in BOOLEAN :
        LET reply == [operation |-> HEARTBEAT_REPLY, protocol_version |-> 1,
                      body |-> SubSeq(pack_u32(online) \o << 0 >>, 1, size)]
            auth == [operation |-> AUTH_REPLY, protocol_version |-> 1,
                     body |-> << 123, 125 >>]
            push == [operation |-> SEND_MSG_REPLY, protocol_version |-> 0,
                     body |-> make_frame(SEND_MSG_REPLY, 0, json_text(chat))]
            fs == IF amid THEN << auth, reply, push >> ELSE << reply >>
        IN  Call(frames_bytes(fs),
                 [kind |-> "heartbeat", frames |-> fs, tail |-> << >>,
                  garbage |-> << >>, online |-> online, size |-> size,
                  amid |-> amid])

\* The sessions that receive one message-push frame or one heartbeat reply.
DecodeSpec == CodecInit /\ [][FeedMessage \/ FeedHeartbeat \/ NewSession]_vars

(***************************************************************************)
(* The session: DanmakuClient.connect, disconnect, _heartbeat_loop,        *)
(* _receive_loop, _schedule_reconnect and _reconnect_loop.  The coroutines *)
(* run on one event loop: a step is the code between two awaits.           *)
(***************************************************************************)
MaxSockets == 3

max_reconnect_attempts == 5

max_wait_time == 60

TaskIds == 1 .. Len(tasks)

\* Task.done()
task_done(t) == tasks[t].pc = "done"

\* A receive loop that found ws to be None repeats without awaiting: it
\* never gives the event loop back.
Spinning == \E t \in TaskIds : tasks[t].pc = "spin"

\* A task that was just created, or cancelled, or whose ws.close() is on a
\* connection that is closed already, is run by the event loop before any
\* coroutine that waits for the network or for a timer: the loop runs its
\* ready callbacks first, in the order they were scheduled.
ReadyTasks ==
    { u \in TaskIds :
        /\ tasks[u].pc # "done"
        /\ \/ tasks[u].pc = "start"
           \/ tasks[u].cancel
           \/ /\ tasks[u].pc \in {"close", "d_close", "c_fail_close",
                                   "c_timeout_close"}
              /\ sockets[tasks[u].sock] # "open" }

Turn(t) == ~Spinning /\ (IF ReadyTasks = {} THEN TRUE ELSE t = MinOf(ReadyTasks))

\* A finished coroutine: its locals are gone.
finish(rec) == [new_task(rec.kind) EXCEPT !.pc = "done"]

\* Coroutine t is suspended at pc and its await has completed normally.
Resumes(t, kind, pc) ==
    /\ t \in TaskIds
    /\ tasks[t].kind = kind
    /\ tasks[t].pc = pc
    /\ ~tasks[t].cancel
    /\ Turn(t)

\* connect() is run by the owner or by a reconnect task.
ResumesConnect(r, pc) ==
    /\ r \in TaskIds
    /\ tasks[r].kind \in {"owner", "rc"}
    /\ tasks[r].pc = pc
    /\ ~tasks[r].cancel
    /\ Turn(r)

MaxOf(S) == CHOOSE x \in S : \A y \in S : y <= x

fresh_http == 1 + MaxOf({0, http_client} \cup http_open)

socket_open(s) == s # 0 /\ sockets[s] = "open"

close_socket_forgotten(s) == sockets

\* ws.close()
close_socket(s) == IF s = 0 THEN sockets ELSE [sockets EXCEPT ![s] = "closed"]

\* min(2 ** self.reconnect_attempts, 60)
wait_time(attempts) == Min(2 ^ attempts, max_wait_time)

reconnect_continues_once_more(attempts, is_running) ==
    attempts <= max_reconnect_attempts /\ ~is_running

\* The test of the while loop of _reconnect_loop.
reconnect_continues(attempts, is_running) ==
    attempts < max_reconnect_attempts /\ ~is_running

notifies_nobody(is_running, registered) == FALSE

\* The give-up notification after the loop.
notifies(is_running, registered) == ~is_running /\ "on_disconnect" \in registered

\* _reconnect_loop from the while test to its next await (asyncio.sleep),
\* or to its end, where on_disconnect is called with the reason
\* max_reconnect_attempts_reached.  ev is what the step did before.
loop_head(t, tasks0, is_running, attempts, ev) ==
    IF reconnect_continues(attempts, is_running)
    THEN /\ reconnect_attempts' = attempts + 1
         /\ tasks' = [tasks0 EXCEPT ![t].pc = "sleep",
                          ![t].delays = Append(@, wait_time(attempts + 1))]
         /\ event' = ev
    ELSE /\ reconnect_attempts' = attempts
         /\ tasks' = [tasks0 EXCEPT ![t] =
                          finish(@)]
         /\ event' = [kind |-> "loop_end", task |-> t,
                      calls |-> tasks0[t].calls, delays |-> tasks0[t].delays,
                      was_running |-> is_running,
                      notified |-> IF notifies(is_running, callbacks)
                                   THEN << "max_reconnect_attempts_reached" >>
                                   ELSE << >>]

\* The counter after a successful connect() of the reconnect loop.
attempts_after_success(attempts) == 0

\* connect() returns to its caller: the owner, or _reconnect_loop, which
\* goes on to its next await.
connect_returns(r, success, tasks0, is_running, ev) ==
    IF tasks0[r].kind = "owner"
    THEN /\ tasks' = [tasks0 EXCEPT ![r].pc = "idle", ![r].sock = 0,
                          ![r].opened = 0,
                          ![r].outcome = IF success THEN "connected" ELSE "failed"]
         /\ reconnect_attempts' = reconnect_attempts
         /\ event' = ev
    ELSE IF success
    THEN /\ tasks' = [tasks0 EXCEPT ![r] = finish(@)]
         /\ reconnect_attempts' = attempts_after_success(reconnect_attempts)
         /\ event' = ev
    ELSE loop_head(r, [tasks0 EXCEPT ![r].opened = 0], is_running,
                   reconnect_attempts, ev)

\* connect() up to its first await: a new HTTP client, then the room lookup.
begin_connect(r, tasks0) ==
    /\ http_client' = fresh_http
    /\ http_open' = http_open \cup {fresh_http}
    /\ tasks' = [tasks0 EXCEPT ![r].pc = "c_http", ![r].calls = @ + 1,
                               ![r].cancel = FALSE, ![r].sock = 0,
                               ![r].opened = 0]

\* The owner calls connect() on the client it has just made.
OwnerConnect(r) ==
    /\ Resumes(r, "owner", "new")
    /\ begin_connect(r, tasks)
    /\ event' = no_event
    /\ UNCHANGED << codec_vars, ws, running, auto_reconnect, reconnect_attempts,
                    heartbeat_task, receive_task, reconnect_task, callbacks,
                    sockets >>
    /\ UNCHANGED << enhanced_vars, server_vars >>

\* The room id and the server info arrive: connect() opens the WebSocket.
ConnectHttpOk(r) ==
    /\ ResumesConnect(r, "c_http")
    /\ tasks' = [tasks EXCEPT ![r].pc = "c_open"]
    /\ event' = no_event
    /\ UNCHANGED << codec_vars, client_vars, sockets >>
    /\ UNCHANGED << enhanced_vars, server_vars >>

\* No room id or no server info: connect() returns False.
ConnectHttpFail(r) ==
    /\ ResumesConnect(r, "c_http")
    /\ connect_returns(r, FALSE, tasks, running, no_event)
    /\ UNCHANGED << codec_vars, ws, running, auto_reconnect, heartbeat_task,
                    receive_task, reconnect_task, callbacks, http_client,
                    http_open, sockets >>
    /\ UNCHANGED << enhanced_vars, server_vars >>

\* websockets.connect succeeds: ws is the new socket, the auth packet is sent.
ConnectOpenOk(r) ==
    /\ ResumesConnect(r, "c_open")
    /\ Len(sockets) < MaxSockets
    /\ sockets' = Append(sockets, "open")
    /\ ws' = Len(sockets) + 1
    /\ tasks' = [tasks EXCEPT ![r].pc = "c_auth", ![r].sock = Len(sockets) + 1,
                              ![r].opened = Len(sockets) + 1]
    /\ event' = no_event
    /\ UNCHANGED << codec_vars, running, auto_reconnect, reconnect_attempts,
                    heartbeat_task, receive_task, reconnect_task, callbacks,
                    http_client, http_open >>
    /\ UNCHANGED << enhanced_vars, server_vars >>

\* websockets.connect times out: connect() returns False.
ConnectOpenTimeout(r) ==
    /\ ResumesConnect(r, "c_open")
    /\ connect_returns(r, FALSE, tasks, running, no_event)
    /\ UNCHANGED << codec_vars, ws, running, auto_reconnect, heartbeat_task,
                    receive_task, reconnect_task, callbacks, http_client,
                    http_open, sockets >>
    /\ UNCHANGED << enhanced_vars, server_vars >>

connect_raises_at_once(r) ==
    /\ running' = FALSE
    /\ ws' = 0
    /\ heartbeat_task' = 0
    /\ receive_task' = 0
    /\ connect_returns(r, FALSE, tasks, FALSE, no_event)

\* The except branch of connect(): running = False, then ws.close() when ws
\* is set, else the handles are dropped and connect() returns False.
connect_raises(r) ==
    /\ running' = FALSE
    /\ IF ws # 0
       THEN /\ tasks' = [tasks EXCEPT ![r].pc = "c_fail_close", ![r].sock = ws]
            /\ event' = no_event
            /\ UNCHANGED << ws, heartbeat_task, receive_task, reconnect_attempts >>
       ELSE /\ ws' = 0
            /\ heartbeat_task' = 0
            /\ receive_task' = 0
            /\ connect_returns(r, FALSE, tasks, FALSE, no_event)

\* websockets.connect raises (refused, bad handshake).
ConnectOpenRaises(r) ==
    /\ ResumesConnect(r, "c_open")
    /\ connect_raises(r)
    /\ UNCHANGED << codec_vars, auto_reconnect, reconnect_task, callbacks,
                    http_client, http_open, sockets >>
    /\ UNCHANGED << enhanced_vars, server_vars >>

\* The auth packet is sent: connect() waits for the first message.
ConnectAuthSent(r) ==
    /\ ResumesConnect(r, "c_auth")
    /\ socket_open(tasks[r].sock)
    /\ ws # 0
    /\ tasks' = [tasks EXCEPT ![r].pc = "c_reply", ![r].sock = ws]
    /\ event' = no_event
    /\ UNCHANGED << codec_vars, client_vars, sockets >>
    /\ UNCHANGED << enhanced_vars, server_vars >>

\* ws.send raises (the socket is closed), or ws is None when recv is called.
ConnectAuthRaises(r) ==
    /\ ResumesConnect(r, "c_auth")
    /\ ~socket_open(tasks[r].sock) \/ ws = 0
    /\ connect_raises(r)
    /\ UNCHANGED << codec_vars, auto_reconnect, reconnect_task, callbacks,
                    http_client, http_open, sockets >>
    /\ UNCHANGED << enhanced_vars, server_vars >>

\* The first binary messages the server may send after the auth packet.
ReplyFrames ==
    { [operation |-> AUTH_REPLY, protocol_version |-> 1, body |-> << 123, 125 >>],
      [operation |-> HANDSHAKE_REPLY, protocol_version |-> 1, body |-> << 123, 125 >>],
      [operation |-> HEARTBEAT_REPLY, protocol_version |-> 1,
       body |-> pack_u32(u32(42))] }

\* The lengths of the text messages it may send.
TextLengths == {10, 40}

\* The operations of the frames _handle_packet finds in a message.
RECURSIVE operations_of(_)
operations_of(frames) ==
    IF frames = << >> THEN << >>
    ELSE << Head(frames).operation >> \o operations_of(Tail(frames))

\* The first binary messages and the operations _handle_packet finds in
\* each.
FirstReplies ==
    { [frame |-> f,
       operations |-> operations_of(handle_packet(frame_bytes(f)).frames)] :
        f \in ReplyFrames }

\* _handle_packet on a str of n characters: no header is ever found in it;
\* after max_errors skipped characters buffer.clear() is called, which a str
\* does not have (AttributeError).
handle_text_raises(n) == n - (max_errors - 1) >= 16

\* The end of the try block of connect(): the buffer is reset, running is
\* set, both loops are started, connect() returns True.
connect_succeeds(r, reply) ==
    /\ buffer' = << >>
    /\ running' = TRUE
    /\ heartbeat_task' = Len(tasks) + 1
    /\ receive_task' = Len(tasks) + 2
    /\ connect_returns(r, TRUE, tasks \o << new_task("hb"), new_task("rx") >>,
                       TRUE,
                       [kind |-> "connected", task |-> r, reply |-> reply])
    /\ UNCHANGED << handled, delivered, fed, ws >>

\* A binary message arrives within the timeout and is handled; the socket is
\* open.
ConnectReplyOk(r) ==
    /\ ResumesConnect(r, "c_reply")
    /\ socket_open(tasks[r].sock)
    /\ ws = 0 \/ socket_open(ws)
    /\ \E first \in FirstReplies : connect_succeeds(r, first.operations)
    /\ UNCHANGED << auto_reconnect, reconnect_task, callbacks, http_client,
                    http_open, sockets >>
    /\ UNCHANGED << enhanced_vars, server_vars >>

\* A text message arrives within the timeout: _handle_packet raises on a
\* long one and finds nothing in a short one.
ConnectReplyText(r) ==
    /\ ResumesConnect(r, "c_reply")
    /\ socket_open(tasks[r].sock)
    /\ \E n \in TextLengths :
         IF handle_text_raises(n)
         THEN connect_raises(r) /\ UNCHANGED codec_vars
         ELSE /\ ws = 0 \/ socket_open(ws)
              /\ connect_succeeds(r, << >>)
    /\ UNCHANGED << auto_reconnect, reconnect_task, callbacks, http_client,
                    http_open, sockets >>
    /\ UNCHANGED << enhanced_vars, server_vars >>

\* A message arrives but the socket is no longer open: connect() returns
\* False and leaves ws as it is.
ConnectReplyNotOpen(r) ==
    /\ ResumesConnect(r, "c_reply")
    /\ ws # 0 /\ ~socket_open(ws)
    /\ connect_returns(r, FALSE, tasks, running, no_event)
    /\ UNCHANGED << codec_vars, ws, running, auto_reconnect, heartbeat_task,
                    receive_task, reconnect_task, callbacks, http_client,
                    http_open, sockets >>
    /\ UNCHANGED << enhanced_vars, server_vars >>

\* Nothing arrives within 3 seconds: the socket is closed when ws is set.
ConnectReplyTimeout(r) ==
    /\ ResumesConnect(r, "c_reply")
    /\ socket_open(tasks[r].sock)
    /\ IF ws # 0
       THEN /\ tasks' = [tasks EXCEPT ![r].pc = "c_timeout_close", ![r].sock = ws]
            /\ event' = no_event
            /\ UNCHANGED reconnect_attempts
       ELSE connect_returns(r, FALSE, tasks, running, no_event)
    /\ UNCHANGED << codec_vars, ws, running, auto_reconnect, heartbeat_task,
                    receive_task, reconnect_task, callbacks, http_client,
                    http_open, sockets >>
    /\ UNCHANGED << enhanced_vars, server_vars >>

\* recv raises ConnectionClosed.
ConnectReplyRaises(r) ==
    /\ ResumesConnect(r, "c_reply")
    /\ ~socket_open(tasks[r].sock)
    /\ connect_raises(r)
    /\ UNCHANGED << codec_vars, auto_reconnect, reconnect_task, callbacks,
                    http_client, http_open, sockets >>
    /\ UNCHANGED << enhanced_vars, server_vars >>

\* ws.close() after the timeout is done: connect() returns False.
ConnectTimeoutClosed(r) ==
    /\ ResumesConnect(r, "c_timeout_close")
    /\ sockets' = close_socket(tasks[r].sock)
    /\ connect_returns(r, FALSE, tasks, running, no_event)
    /\ UNCHANGED << codec_vars, ws, running, auto_reconnect, heartbeat_task,
                    receive_task, reconnect_task, callbacks, http_client,
                    http_open >>
    /\ UNCHANGED << enhanced_vars, server_vars >>

\* ws.close() in the except branch is done, or was interrupted: the bare
\* except swallows every exception, CancelledError included.
ConnectFailClosed(r) ==
    /\ r \in TaskIds
    /\ tasks[r].kind \in {"owner", "rc"}
    /\ tasks[r].pc = "c_fail_close"
    /\ Turn(r)
    /\ sockets' = close_socket(tasks[r].sock)
    /\ ws' = 0
    /\ heartbeat_task' = 0
    /\ receive_task' = 0
    /\ connect_returns(r, FALSE, [tasks EXCEPT ![r].cancel = FALSE], running,
                       no_event)
    /\ UNCHANGED << codec_vars, running, auto_reconnect, reconnect_task,
                    callbacks, http_client, http_open >>
    /\ UNCHANGED << enhanced_vars, server_vars >>

(***************************************************************************)
(* _reconnect_loop.                                                        *)
(***************************************************************************)
ReconnectStart(t) ==
    /\ Resumes(t, "rc", "start")
    /\ IF ~auto_reconnect
       THEN /\ tasks' = [tasks EXCEPT ![t] = finish(@)]
            /\ event' = no_event
            /\ UNCHANGED reconnect_attempts
       ELSE loop_head(t, tasks, running, 0, no_event)
    /\ UNCHANGED << codec_vars, ws, running, auto_reconnect, heartbeat_task,
                    receive_task, reconnect_task, callbacks, http_client,
                    http_open, sockets >>
    /\ UNCHANGED << enhanced_vars, server_vars >>

heartbeats_still_pending == TRUE

\* A back-off sleep lasts 2 seconds or more, a sleep of the heartbeat loop 1
\* second: a heartbeat loop that slept when the back-off began has woken,
\* and has ended if running was false, when the back-off is over.  A send
\* that was pending on a socket that is closed has raised by then.
HeartbeatsTicked ==
    \A h \in TaskIds :
        tasks[h].kind = "hb" =>
            /\ tasks[h].pc = "sleep" => running
            /\ tasks[h].pc = "send" => socket_open(tasks[h].sock)

\* The back-off sleep is over and ws is set: the old socket is closed.
ReconnectWakeClose(t) ==
    /\ Resumes(t, "rc", "sleep")
    /\ HeartbeatsTicked
    /\ ws # 0
    /\ tasks' = [tasks EXCEPT ![t].pc = "close", ![t].sock = ws]
    /\ event' = no_event
    /\ UNCHANGED << codec_vars, client_vars, sockets >>
    /\ UNCHANGED << enhanced_vars, server_vars >>

\* The back-off sleep is over and ws is None: connect() is called.
ReconnectWakeConnect(t) ==
    /\ Resumes(t, "rc", "sleep")
    /\ HeartbeatsTicked
    /\ ws = 0
    /\ begin_connect(t, tasks)
    /\ event' = no_event
    /\ UNCHANGED << codec_vars, ws, running, auto_reconnect, reconnect_attempts,
                    heartbeat_task, receive_task, reconnect_task, callbacks,
                    sockets >>
    /\ UNCHANGED << enhanced_vars, server_vars >>

\* ws.close() of the old socket is done, or was interrupted: the bare except
\* swallows every exception, CancelledError included; connect() is called.
ReconnectClosed(t) ==
    /\ t \in TaskIds
    /\ tasks[t].kind = "rc"
    /\ tasks[t].pc = "close"
    /\ Turn(t)
    /\ sockets' = close_socket(tasks[t].sock)
    /\ ws' = 0
    /\ begin_connect(t, tasks)
    /\ event' = no_event
    /\ UNCHANGED << codec_vars, running, auto_reconnect, reconnect_attempts,
                    heartbeat_task, receive_task, reconnect_task, callbacks >>
    /\ UNCHANGED << enhanced_vars, server_vars >>

\* CancelledError is raised at the await of a cancelled task and ends it;
\* the finally clause of a started receive loop clears the buffer.
Cancelled(t) ==
    /\ t \in TaskIds
    /\ tasks[t].cancel
    /\ tasks[t].pc \notin {"done", "close", "c_fail_close"}
    /\ Turn(t)
    /\ tasks' = [tasks EXCEPT ![t] = finish(@)]
    /\ buffer' = IF tasks[t].kind = "rx" /\ tasks[t].pc # "start"
                 THEN << >> ELSE buffer
    /\ event' = no_event
    /\ UNCHANGED << handled, delivered, fed, client_vars, sockets >>
    /\ UNCHANGED << enhanced_vars, server_vars >>

(***************************************************************************)
(* _receive_loop and _schedule_reconnect.                                  *)
(***************************************************************************)
\* The frames of the stream arrive whole or cut in two reads.
heartbeat_reply == make_frame(HEARTBEAT_REPLY, 1, pack_u32(u32(42)))

CutAt == 10

head_read == SubSeq(heartbeat_reply, 1, CutAt)

tail_read == SubSeq(heartbeat_reply, CutAt + 1, Len(heartbeat_reply))

\* The reads that may follow a buffer, and what _handle_packet leaves of
\* the buffer extended by the read.
Reads ==
    { [buffer |-> x[1], data |-> x[2], rest |-> handle_packet(x[1] \o x[2]).rest] :
        x \in { << << >>, heartbeat_reply >>, << << >>, head_read >>,
                << head_read, tail_read >> } }

\* The while test and ws.recv(): the loop ends (and clears the buffer) when
\* running is false; with ws None every pass raises AttributeError, which is
\* logged, and the loop repeats without an await.
receive_head(t, tasks0, buf) ==
    IF ~running
    THEN /\ tasks' = [tasks0 EXCEPT ![t] = finish(@)]
         /\ buffer' = << >>
    ELSE IF ws = 0
    THEN /\ tasks' = [tasks0 EXCEPT ![t].pc = "spin"]
         /\ buffer' = buf
    ELSE /\ tasks' = [tasks0 EXCEPT ![t].pc = "recv", ![t].sock = ws]
         /\ buffer' = buf

ReceiveStart(t) ==
    /\ Resumes(t, "rx", "start")
    /\ receive_head(t, tasks, buffer)
    /\ event' = no_event
    /\ UNCHANGED << handled, delivered, fed, client_vars, sockets >>
    /\ UNCHANGED << enhanced_vars, server_vars >>

\* Data arrives: it is appended to the buffer and the buffer is handled.
ReceiveData(t) ==
    /\ Resumes(t, "rx", "recv")
    /\ socket_open(tasks[t].sock)
    /\ \E read \in Reads :
         read.buffer = buffer /\ receive_head(t, tasks, read.rest)
    /\ event' = no_event
    /\ UNCHANGED << handled, delivered, fed, client_vars, sockets >>
    /\ UNCHANGED << enhanced_vars, server_vars >>

\* A text message arrives: buffer.extend raises TypeError, which is logged;
\* the loop goes on.
ReceiveError(t) ==
    /\ Resumes(t, "rx", "recv")
    /\ socket_open(tasks[t].sock)
    /\ receive_head(t, tasks, buffer)
    /\ event' = [kind |-> "rx_error", task |-> t, was_running |-> running,
                 ntasks |-> Len(tasks), reconnect_task |-> reconnect_task]
    /\ UNCHANGED << handled, delivered, fed, client_vars, sockets >>
    /\ UNCHANGED << enhanced_vars, server_vars >>

\* _schedule_reconnect: a reconnect task that is not done is cancelled, a new
\* one is created.
schedule_reconnect(tasks0) ==
    Append(IF reconnect_task # 0 /\ ~task_done(reconnect_task)
           THEN [tasks0 EXCEPT ![reconnect_task].cancel = TRUE]
           ELSE tasks0,
           new_task("rc"))

reconnect_never_wanted(auto) == FALSE

\* The test made before _schedule_reconnect is called.
reconnect_wanted(auto) == auto

\* recv raises ConnectionClosed: running becomes false, a reconnect is
\* scheduled when auto_reconnect is set, the loop is left.
ReceiveClosed(t) ==
    /\ Resumes(t, "rx", "recv")
    /\ ~socket_open(tasks[t].sock)
    /\ running' = FALSE
    /\ buffer' = << >>
    /\ IF reconnect_wanted(auto_reconnect)
       THEN /\ tasks' = schedule_reconnect(
                   [tasks EXCEPT ![t] = finish(@)])
            /\ reconnect_task' = Len(tasks) + 1
       ELSE /\ tasks' = [tasks EXCEPT ![t] = finish(@)]
            /\ UNCHANGED reconnect_task
    /\ event' = [kind |-> "rx_closed", task |-> t, auto |-> auto_reconnect,
                 ntasks |-> Len(tasks)]
    /\ UNCHANGED << handled, delivered, fed, ws, auto_reconnect,
                    reconnect_attempts, heartbeat_task, receive_task, callbacks,
                    http_client, http_open, sockets >>
    /\ UNCHANGED << enhanced_vars, server_vars >>

(***************************************************************************)
(* _heartbeat_loop.                                                        *)
(***************************************************************************)
\* The while test and _send_packet: the loop ends when running is false, and
\* when ws is None (AttributeError, caught outside the loop).
heartbeat_head(t) ==
    IF ~running
    THEN tasks' = [tasks EXCEPT ![t] = finish(@)]
    ELSE IF ws = 0
    THEN tasks' = [tasks EXCEPT ![t] = finish(@)]
    ELSE tasks' = [tasks EXCEPT ![t].pc = "send", ![t].sock = ws]

HeartbeatStart(t) ==
    /\ Resumes(t, "hb", "start")
    /\ heartbeat_head(t)
    /\ event' = no_event
    /\ UNCHANGED << codec_vars, client_vars, sockets >>
    /\ UNCHANGED << enhanced_vars, server_vars >>

\* The heartbeat is sent: the loop sleeps, second by second.
HeartbeatSent(t) ==
    /\ Resumes(t, "hb", "send")
    /\ socket_open(tasks[t].sock)
    /\ tasks' = IF running THEN [tasks EXCEPT ![t].pc = "sleep"]
                ELSE [tasks EXCEPT ![t] = finish(@)]
    /\ event' = no_event
    /\ UNCHANGED << codec_vars, client_vars, sockets >>
    /\ UNCHANGED << enhanced_vars, server_vars >>

heartbeat_schedules_reconnect(auto) == auto

\* The except clause of _heartbeat_loop prints the error: it schedules no
\* reconnect, whatever auto_reconnect is.
heartbeat_schedules(auto) == FALSE

\* ws.send raises ConnectionClosed: the except clause is outside the loop,
\* the loop ends.
HeartbeatSendRaises(t) ==
    /\ Resumes(t, "hb", "send")
    /\ ~socket_open(tasks[t].sock)
    /\ IF heartbeat_schedules(auto_reconnect)
       THEN /\ tasks' = schedule_reconnect(
                   [tasks EXCEPT ![t] = finish(@)])
            /\ reconnect_task' = Len(tasks) + 1
       ELSE /\ tasks' = [tasks EXCEPT ![t] = finish(@)]
            /\ UNCHANGED reconnect_task
    /\ event' = [kind |-> "hb_error", task |-> t]
    /\ UNCHANGED << codec_vars, ws, running, auto_reconnect, reconnect_attempts,
                    heartbeat_task, receive_task, callbacks, http_client,
                    http_open, sockets >>
    /\ UNCHANGED << enhanced_vars, server_vars >>

\* ws.send raises another error while the socket is open (a write that
\* fails once): the same except clause, outside the loop, ends the loop.
HeartbeatSendFails(t) ==
    /\ Resumes(t, "hb", "send")
    /\ socket_open(tasks[t].sock)
    /\ IF heartbeat_schedules(auto_reconnect)
       THEN /\ tasks' = schedule_reconnect(
                   [tasks EXCEPT ![t] = finish(@)])
            /\ reconnect_task' = Len(tasks) + 1
       ELSE /\ tasks' = [tasks EXCEPT ![t] = finish(@)]
            /\ UNCHANGED reconnect_task
    /\ event' = [kind |-> "hb_error", task |-> t]
    /\ UNCHANGED << codec_vars, ws, running, auto_reconnect, reconnect_attempts,
                    heartbeat_task, receive_task, callbacks, http_client,
                    http_open, sockets >>
    /\ UNCHANGED << enhanced_vars, server_vars >>

\* A sleep of one second is over: the loop ends when running is false, and
\* sends again after 30 of them.
HeartbeatTick(t) ==
    /\ Resumes(t, "hb", "sleep")
    /\ heartbeat_head(t)
    /\ event' = no_event
    /\ UNCHANGED << codec_vars, client_vars, sockets >>
    /\ UNCHANGED << enhanced_vars, server_vars >>

(***************************************************************************)
(* disconnect().                                                           *)
(***************************************************************************)
\* The handles of disconnect() that are set and not done.
live_handles ==
    { h \in {heartbeat_task, receive_task, reconnect_task} \ {0} : ~task_done(h) }

\* The end of disconnect(): the handles and callbacks are dropped, then the
\* HTTP client is closed when there is one.
disconnect_cleanup(r, tasks0) ==
    /\ heartbeat_task' = 0
    /\ receive_task' = 0
    /\ reconnect_task' = 0
    /\ ws' = 0
    /\ callbacks' = {}
    /\ tasks' = IF http_client # 0
                THEN [tasks0 EXCEPT ![r].pc = "d_http", ![r].sock = http_client,
                                    ![r].waiting = {}]
                ELSE [tasks0 EXCEPT ![r].pc = "disconnected", ![r].sock = 0,
                                    ![r].waiting = {}]

\* What a step of disconnect() did: it has returned, or awaits.
disconnect_event(r, pc) ==
    IF pc = "disconnected" THEN [kind |-> "disconnected", task |-> r]
    ELSE no_event

\* The states of its owner in which disconnect() is called: on a client that
\* never connected, after connect() has returned, after disconnect().
DisconnectFrom == {"new", "idle", "disconnected"}

\* disconnect() from "if self.ws:" on.
disconnect_close(r, tasks0) ==
    IF ws # 0
    THEN /\ tasks' = [tasks0 EXCEPT ![r].pc = "d_close", ![r].sock = ws,
                                    ![r].waiting = {}]
         /\ UNCHANGED << ws, heartbeat_task, receive_task, reconnect_task,
                         callbacks >>
    ELSE disconnect_cleanup(r, tasks0)

\* disconnect() is called: the flags are cleared, the live tasks are
\* cancelled and waited for.
OwnerDisconnect(r) ==
    /\ \E pc \in DisconnectFrom : Resumes(r, "owner", pc)
    /\ running' = FALSE
    /\ auto_reconnect' = FALSE
    /\ LET cancelled == [t \in TaskIds |->
                           IF t \in live_handles
                           THEN [tasks[t] EXCEPT !.cancel = TRUE] ELSE tasks[t]]
       IN  IF live_handles # {}
           THEN /\ tasks' = [cancelled EXCEPT ![r].pc = "d_wait",
                                              ![r].waiting = live_handles]
                /\ UNCHANGED << ws, heartbeat_task, receive_task, reconnect_task,
                                callbacks >>
           ELSE disconnect_close(r, cancelled)
    /\ event' = disconnect_event(r, tasks'[r].pc)
    /\ UNCHANGED << codec_vars, reconnect_attempts, http_client, http_open,
                    sockets >>
    /\ UNCHANGED << enhanced_vars, server_vars >>

\* asyncio.wait returns: every task waited for is done, or 3 seconds have
\* passed.  A task whose CancelledError is still to be raised ends at once,
\* so the timeout only passes while a task has swallowed its cancellation.
DisconnectWaited(r) ==
    /\ Resumes(r, "owner", "d_wait")
    /\ \A t \in tasks[r].waiting : task_done(t) \/ ~tasks[t].cancel
    /\ disconnect_close(r, tasks)
    /\ event' = disconnect_event(r, tasks'[r].pc)
    /\ UNCHANGED << codec_vars, running, auto_reconnect, reconnect_attempts,
                    http_client, http_open, sockets >>
    /\ UNCHANGED << enhanced_vars, server_vars >>

\* ws.close() is done (or raised, which is ignored).
DisconnectClosed(r) ==
    /\ Resumes(r, "owner", "d_close")
    /\ sockets' = close_socket(tasks[r].sock)
    /\ disconnect_cleanup(r, tasks)
    /\ event' = disconnect_event(r, tasks'[r].pc)
    /\ UNCHANGED << codec_vars, running, auto_reconnect, reconnect_attempts,
                    http_client, http_open >>
    /\ UNCHANGED << enhanced_vars, server_vars >>

\* http_client.aclose() is done: disconnect() returns.
DisconnectHttpClosed(r) ==
    /\ Resumes(r, "owner", "d_http")
    /\ http_open' = http_open \ {tasks[r].sock}
    /\ http_client' = 0
    /\ tasks' = [tasks EXCEPT ![r].pc = "disconnected", ![r].sock = 0]
    /\ event' = disconnect_event(r, tasks'[r].pc)
    /\ UNCHANGED << codec_vars, ws, running, auto_reconnect, reconnect_attempts,
                    heartbeat_task, receive_task, reconnect_task, callbacks,
                    sockets >>
    /\ UNCHANGED << enhanced_vars, server_vars >>

(***************************************************************************)
(* The server.                                                             *)
(***************************************************************************)
\* The server (or the network) closes an open socket.
RemoteClose(s) ==
    /\ ~Spinning
    /\ ReadyTasks = {}
    /\ s \in 1 .. Len(sockets)
    /\ sockets[s] = "open"
    /\ sockets' = [sockets EXCEPT ![s] = "closed"]
    /\ event' = no_event
    /\ UNCHANGED << codec_vars, client_vars, tasks >>
    /\ UNCHANGED << enhanced_vars, server_vars >>

\* The steps a task takes when a message of the server arrives.
ServerStep(t) ==
    \/ ConnectReplyOk(t)
    \/ ConnectReplyText(t)
    \/ ConnectReplyNotOpen(t)
    \/ ReceiveData(t)
    \/ ReceiveError(t)

\* The steps a task takes when its sleep is over, its timeout has passed, its
\* call has returned or raised, or it was created or cancelled.
LocalStep(t) ==
    \/ OwnerConnect(t)
    \/ ConnectHttpOk(t)
    \/ ConnectHttpFail(t)
    \/ ConnectOpenOk(t)
    \/ ConnectOpenTimeout(t)
    \/ ConnectOpenRaises(t)
    \/ ConnectAuthSent(t)
    \/ ConnectAuthRaises(t)
    \/ ConnectReplyTimeout(t)
    \/ ConnectReplyRaises(t)
    \/ ConnectTimeoutClosed(t)
    \/ ConnectFailClosed(t)
    \/ ReconnectStart(t)
    \/ ReconnectWakeClose(t)
    \/ ReconnectWakeConnect(t)
    \/ ReconnectClosed(t)
    \/ Cancelled(t)
    \/ HeartbeatStart(t)
    \/ HeartbeatSent(t)
    \/ HeartbeatSendRaises(t)
    \/ HeartbeatSendFails(t)
    \/ HeartbeatTick(t)
    \/ ReceiveStart(t)
    \/ ReceiveClosed(t)
    \/ OwnerDisconnect(t)
    \/ DisconnectWaited(t)
    \/ DisconnectClosed(t)
    \/ DisconnectHttpClosed(t)

Step(t) == ServerStep(t) \/ LocalStep(t)

MaxTasks == 1 + 2 * MaxSockets + MaxSockets

Next ==
    \/ \E t \in 1 .. MaxTasks : Step(t)
    \/ \E s \in 1 .. MaxSockets : RemoteClose(s)

\* The owner has registered the callbacks of connect_room, and on_disconnect
\* or not.
Init ==
    /\ ClientInit
    /\ ServerInit
    /\ EnhancedInit(FALSE, TRUE, retry_delay_seconds, TRUE)
    /\ callbacks \in {ServerCallbacks, ServerCallbacks \cup {"on_disconnect"}}
    /\ buffer = << >>
    /\ handled = << >>
    /\ delivered = << >>
    /\ fed = [kind |-> "none", frames |-> << >>, tail |-> << >>, garbage |-> << >>]

Spec == Init /\ [][Next]_vars

\* The event loop runs every task that can take a step; the owner and the
\* server act when they choose to.
FairSpec == Spec /\ \A t \in 2 .. MaxTasks : WF_vars(LocalStep(t))

(***************************************************************************)
(* The reconnection controllers with a simulated connect():                *)
(* DanmakuClient._reconnect_loop, which the receive loop schedules, and    *)
(* EnhancedDanmakuClient.auto_reconnect, which the owner calls.            *)
(***************************************************************************)
MaxLoops == 2

MaxCalls == 2

RetryDelays == {retry_delay_seconds, 10}

\* The owner of a DanmakuClient calls connect().
FirstConnect(r) == ~enhanced /\ OwnerConnect(r)

\* connect() succeeds: running is set; the loops it starts are left out.
SimulatedSuccess(r) ==
    /\ ~enhanced
    /\ ResumesConnect(r, "c_http")
    /\ running' = TRUE
    /\ connect_returns(r, TRUE, tasks, TRUE,
                       [kind |-> "connected", task |-> r, reply |-> << >>])
    /\ UNCHANGED << codec_vars, ws, auto_reconnect, heartbeat_task, receive_task,
                    reconnect_task, callbacks, http_client, http_open, sockets >>
    /\ UNCHANGED << enhanced_vars, server_vars >>

\* The receive loop finds the connection closed: running becomes false and
\* a reconnect is scheduled when auto_reconnect is set.
SimulatedClose ==
    /\ ~enhanced
    /\ running
    /\ ReadyTasks = {}
    /\ Len(tasks) <= MaxLoops
    /\ running' = FALSE
    /\ IF reconnect_wanted(auto_reconnect)
       THEN /\ tasks' = schedule_reconnect(tasks)
            /\ reconnect_task' = Len(tasks) + 1
       ELSE UNCHANGED << tasks, reconnect_task >>
    /\ event' = no_event
    /\ UNCHANGED << codec_vars, ws, auto_reconnect, reconnect_attempts,
                    heartbeat_task, receive_task, callbacks, http_client,
                    http_open, sockets >>
    /\ UNCHANGED << enhanced_vars, server_vars >>

\* A call of auto_reconnect.
new_sequence == [pc |-> "start", calls |-> 0, delays |-> << >>]

end_sequence(result, seq) ==
    [kind |-> "sequence_end", result |-> result, calls |-> seq.calls,
     delays |-> seq.delays]

delay_uncapped(count, base, exponential) ==
    IF exponential THEN base * (2 ^ (count - 1)) ELSE base

\* The delay of auto_reconnect before the attempt that makes retry_count
\* equal to count.
delay(count, base, exponential) ==
    IF exponential THEN Min(base * (2 ^ (count - 1)), 60) ELSE base

\* The test of the while loop of auto_reconnect.
retry_continues(count) == count < max_retries

\* auto_reconnect from the while test to its next await (asyncio.sleep), or
\* to its end, where is_reconnecting is cleared and False returned.
retry_head(i, sequences0, count) ==
    IF retry_continues(count)
    THEN /\ retry_count' = count + 1
         /\ is_reconnecting' = TRUE
         /\ sequences' = [sequences0 EXCEPT ![i].pc = "sleep",
               ![i].delays = Append(@, delay(count + 1, retry_delay,
                                             exponential_backoff))]
         /\ event' = no_event
    ELSE /\ retry_count' = count
         /\ is_reconnecting' = FALSE
         /\ sequences' = [sequences0 EXCEPT ![i] = [new_sequence EXCEPT !.pc = "done"]]
         /\ event' = end_sequence("failed", sequences0[i])

\* auto_reconnect is called and runs to its first await, or returns False
\* at once: reconnecting is disabled, or a sequence is running.
AutoReconnectCall ==
    /\ enhanced
    /\ Len(sequences) < MaxCalls
    /\ LET i == Len(sequences) + 1
           sequences0 == Append(sequences, new_sequence)
       IN  IF ~enable_auto_reconnect \/ is_reconnecting
           THEN /\ sequences' = [sequences0 EXCEPT ![i].pc = "done"]
                /\ event' = end_sequence(IF is_reconnecting THEN "skipped"
                                         ELSE "disabled", sequences0[i])
                /\ UNCHANGED << retry_count, is_reconnecting >>
           ELSE retry_head(i, sequences0, retry_count)
    /\ UNCHANGED << codec_vars, client_vars, sockets, tasks >>
    /\ UNCHANGED << enhanced, enable_auto_reconnect, retry_delay,
                    exponential_backoff >>
    /\ UNCHANGED server_vars

\* The sleep is over: connect() is called.
AutoReconnectSlept(i) ==
    /\ i \in 1 .. Len(sequences)
    /\ sequences[i].pc = "sleep"
    /\ sequences' = [sequences EXCEPT ![i].pc = "connect", ![i].calls = @ + 1]
    /\ event' = no_event
    /\ UNCHANGED << codec_vars, client_vars, sockets, tasks >>
    /\ UNCHANGED << enhanced, enable_auto_reconnect, retry_delay,
                    exponential_backoff, retry_count, is_reconnecting >>
    /\ UNCHANGED server_vars

\* EnhancedDanmakuClient.connect returns: True after it has reset
\* retry_count, and auto_reconnect returns True; or False, and the loop goes
\* on.
AutoReconnectReturned(i) ==
    /\ i \in 1 .. Len(sequences)
    /\ sequences[i].pc = "connect"
    /\ \E success \in BOOLEAN :
         IF success
         THEN /\ retry_count' = 0
              /\ is_reconnecting' = FALSE
              /\ sequences' = [sequences EXCEPT ![i] =
                                   [new_sequence EXCEPT !.pc = "done"]]
              /\ event' = end_sequence("reconnected", sequences[i])
         ELSE retry_head(i, sequences, retry_count)
    /\ UNCHANGED << codec_vars, client_vars, sockets, tasks >>
    /\ UNCHANGED << enhanced, enable_auto_reconnect, retry_delay,
                    exponential_backoff >>
    /\ UNCHANGED server_vars

ReconnectNext ==
    \/ \E t \in 1 .. MaxLoops + 1 :
         \/ FirstConnect(t)
         \/ ConnectHttpFail(t)
         \/ SimulatedSuccess(t)
         \/ ReconnectStart(t)
         \/ ReconnectWakeConnect(t)
    \/ SimulatedClose
    \/ AutoReconnectCall
    \/ \E i \in 1 .. MaxCalls :
         \/ AutoReconnectSlept(i)
         \/ AutoReconnectReturned(i)

\* A DanmakuClient, or an EnhancedDanmakuClient with its configuration.
ReconnectInit ==
    /\ ClientInit
    /\ ServerInit
    /\ callbacks \in {ServerCallbacks, ServerCallbacks \cup {"on_disconnect"}}
    /\ buffer = << >>
    /\ handled = << >>
    /\ delivered = << >>
    /\ fed = [kind |-> "none", frames |-> << >>, tail |-> << >>, garbage |-> << >>]
    /\ \/ EnhancedInit(FALSE, TRUE, retry_delay_seconds, TRUE)
       \/ \E enable \in BOOLEAN, d \in RetryDelays, exponential \in BOOLEAN :
            EnhancedInit(TRUE, enable, d, exponential)

ReconnectSpec == ReconnectInit /\ [][ReconnectNext]_vars

(***************************************************************************)
(* The session of an EnhancedDanmakuClient: connect() and disconnect()     *)
(* wrap the ones of DanmakuClient, the heartbeat loop is inherited, and    *)
(* _receive_loop is overridden.                                            *)
(***************************************************************************)

\* self.auto_reconnect(): the attribute DanmakuClient.__init__ sets on the
\* instance is found before the method of the class; calling a bool raises
\* TypeError.
attribute_callable(value) == value \notin BOOLEAN

\* recv raises ConnectionClosed in the overridden loop.  With running false
\* nothing is done and the loop ends; else the error is logged and, when its
\* text names "closed" or "disconnect" (detected), running becomes false and
\* create_task(self.auto_reconnect()) is evaluated when
\* enable_auto_reconnect is set; a TypeError raised there reaches the outer
\* except clause.  The finally clause clears the buffer.
EnhancedReceiveClosed(t) ==
    /\ enhanced
    /\ Resumes(t, "rx", "recv")
    /\ ~socket_open(tasks[t].sock)
    /\ \E detected \in BOOLEAN :
         /\ IF running /\ ~detected
            THEN /\ receive_head(t, tasks, buffer)
                 /\ UNCHANGED << running, reconnect_task >>
            ELSE /\ running' = FALSE
                 /\ buffer' = << >>
                 /\ IF /\ running
                       /\ enable_auto_reconnect
                       /\ attribute_callable(auto_reconnect)
                    THEN /\ tasks' = Append([tasks EXCEPT ![t] = finish(@)],
                                            new_task("auto_reconnect"))
                         /\ reconnect_task' = Len(tasks) + 1
                    ELSE /\ tasks' = [tasks EXCEPT ![t] = finish(@)]
                         /\ UNCHANGED reconnect_task
         /\ event' = [kind |-> "rx_closed", task |-> t, detected |-> detected,
                      was_running |-> running, ntasks |-> Len(tasks)]
    /\ UNCHANGED << handled, delivered, fed, ws, auto_reconnect,
                    reconnect_attempts, heartbeat_task, receive_task, callbacks,
                    http_client, http_open, sockets >>
    /\ UNCHANGED << enhanced_vars, server_vars >>

EnhancedStep(t) ==
    \/ OwnerConnect(t)
    \/ ConnectHttpOk(t)
    \/ ConnectHttpFail(t)
    \/ ConnectOpenOk(t)
    \/ ConnectOpenTimeout(t)
    \/ ConnectOpenRaises(t)
    \/ ConnectAuthSent(t)
    \/ ConnectAuthRaises(t)
    \/ ConnectReplyOk(t)
    \/ ConnectReplyText(t)
    \/ ConnectReplyNotOpen(t)
    \/ ConnectReplyTimeout(t)
    \/ ConnectReplyRaises(t)
    \/ ConnectTimeoutClosed(t)
    \/ ConnectFailClosed(t)
    \/ Cancelled(t)
    \/ HeartbeatStart(t)
    \/ HeartbeatSent(t)
    \/ HeartbeatSendRaises(t)
    \/ HeartbeatSendFails(t)
    \/ HeartbeatTick(t)
    \/ ReceiveStart(t)
    \/ ReceiveData(t)
    \/ ReceiveError(t)
    \/ EnhancedReceiveClosed(t)
    \/ OwnerDisconnect(t)
    \/ DisconnectWaited(t)
    \/ DisconnectClosed(t)
    \/ DisconnectHttpClosed(t)

EnhancedNext ==
    \/ \E t \in 1 .. MaxTasks : EnhancedStep(t)
    \/ \E s \in 1 .. MaxSockets : RemoteClose(s)

EnhancedSessionInit ==
    /\ ClientInit
    /\ ServerInit
    /\ callbacks \in {ServerCallbacks, ServerCallbacks \cup {"on_disconnect"}}
    /\ buffer = << >>
    /\ handled = << >>
    /\ delivered = << >>
    /\ fed = [kind |-> "none", frames |-> << >>, tail |-> << >>, garbage |-> << >>]
    /\ \E enable \in BOOLEAN, d \in RetryDelays, exponential \in BOOLEAN :
         EnhancedInit(TRUE, enable, d, exponential)

EnhancedSpec == EnhancedSessionInit /\ [][EnhancedNext]_vars

(***************************************************************************)
(* server.py: the global danmaku_client handle and the coroutines that     *)
(* connect and disconnect rooms (the WebSocket handlers of the browsers    *)
(* and auto_connect_room).  A client is reduced to the fields connect()    *)
(* and disconnect() read and write; the server closes no connection here.  *)
(***************************************************************************)
\* The coroutine is suspended in an await.
room_awaits(h, clients0, c, pc, then) ==
    /\ clients' = clients0
    /\ handlers' = [handlers EXCEPT ![h].pc = pc, ![h].self = c, ![h].then = then]
    /\ UNCHANGED danmaku_client

\* connect_room and auto_connect_room from "danmaku_client = DanmakuClient(...)"
\* to the first await of connect(), which has made the HTTP client.
room_create(h, clients0, op) ==
    /\ clients' = Append(clients0, [new_client EXCEPT !.http = TRUE])
    /\ danmaku_client' = Len(clients0) + 1
    /\ handlers' = [handlers EXCEPT ![h].op = op,
                                    ![h].pc = "c_http",
                                    ![h].self = Len(clients0) + 1,
                                    ![h].then = "none"]

\* The coroutine has finished its call.
room_ends(h, clients0, handle) ==
    /\ clients' = clients0
    /\ danmaku_client' = handle
    /\ handlers' = [handlers EXCEPT ![h] = new_handler]

\* disconnect() has returned: the caller sets danmaku_client to None, and
\* connect_room goes on to make its new client.
room_disconnected(h, clients0, then) ==
    IF then \in {"connect_room", "auto_connect_room"}
    THEN room_create(h, clients0, then)
    ELSE room_ends(h, clients0, 0)

\* disconnect() from "if self.http_client:" on.
room_disconnect_http(h, clients0, c, then) ==
    IF clients0[c].http
    THEN room_awaits(h, clients0, c, "d_http", then)
    ELSE room_disconnected(h, clients0, then)

\* disconnect() from "self.heartbeat_task = None" on: the handles and ws are
\* dropped.
room_disconnect_cleanup(h, clients0, c, then) ==
    room_disconnect_http(h, [clients0 EXCEPT ![c].ws = "none"], c, then)

\* disconnect() from "if self.ws:" on: ws.close() is called, from when on the
\* socket is not open.
room_disconnect_close(h, clients0, c, then) ==
    IF clients0[c].ws # "none"
    THEN room_awaits(h, [clients0 EXCEPT ![c].ws = "closed"], c, "d_close", then)
    ELSE room_disconnect_cleanup(h, clients0, c, then)

\* disconnect() of client c from its first line: running is cleared, the
\* loops are cancelled and waited for.
room_disconnect(h, clients0, c, then) ==
    LET clients1 == [clients0 EXCEPT ![c].running = FALSE]
    IN  IF clients1[c].loops
        THEN room_awaits(h, clients1, c, "d_wait", then)
        ELSE room_disconnect_close(h, clients1, c, then)

\* The calls that will still make a client.
PendingCreates ==
    Cardinality({ h \in DOMAIN handlers :
                    handlers[h].then \in {"connect_room", "auto_connect_room"} })

\* connect_room (a browser asks for a room) or auto_connect_room (after its
\* sleep): the client danmaku_client refers to is disconnected first.
RoomConnect(h) ==
    /\ handlers[h].pc = "idle"
    /\ Len(clients) + PendingCreates < MaxClients
    /\ \E op \in {"connect_room", "auto_connect_room"} :
         IF danmaku_client # 0
         THEN room_disconnect(h, clients, danmaku_client, op)
         ELSE room_create(h, clients, op)
    /\ UNCHANGED << session_vars, plugin_vars >>

\* disconnect_room: the client danmaku_client refers to is disconnected.
RoomDisconnect(h) ==
    /\ handlers[h].pc = "idle"
    /\ danmaku_client # 0
    /\ room_disconnect(h, clients, danmaku_client, "clear")
    /\ UNCHANGED << session_vars, plugin_vars >>

\* asyncio.wait returns: the cancelled loops have ended.
RoomDisconnectWaited(h) ==
    /\ handlers[h].pc = "d_wait"
    /\ LET c == handlers[h].self
       IN  room_disconnect_close(h, [clients EXCEPT ![c].loops = FALSE], c,
                                 handlers[h].then)
    /\ UNCHANGED << session_vars, plugin_vars >>

\* ws.close() is done.
RoomDisconnectClosed(h) ==
    /\ handlers[h].pc = "d_close"
    /\ room_disconnect_cleanup(h, clients, handlers[h].self, handlers[h].then)
    /\ UNCHANGED << session_vars, plugin_vars >>

\* http_client.aclose() is done: disconnect() returns.
RoomDisconnectHttpClosed(h) ==
    /\ handlers[h].pc = "d_http"
    /\ LET c == handlers[h].self
       IN  room_disconnected(h, [clients EXCEPT ![c].http = FALSE],
                             handlers[h].then)
    /\ UNCHANGED << session_vars, plugin_vars >>

\* connect() has returned False: auto_connect_room logs it; connect_room
\* calls disconnect() on danmaku_client, whatever it refers to by now (on
\* None the AttributeError is caught), and sets it to None.
room_connect_failed(h, clients0) ==
    IF handlers[h].op = "auto_connect_room"
    THEN room_ends(h, clients0, danmaku_client)
    ELSE IF danmaku_client = 0
    THEN room_ends(h, clients0, 0)
    ELSE room_disconnect(h, clients0, danmaku_client, "clear")

\* The except branch of connect(): running = False, then ws.close() when ws
\* is set.
room_connect_raises(h, c) ==
    LET clients0 == [clients EXCEPT ![c].running = FALSE]
    IN  IF clients0[c].ws # "none"
        THEN room_awaits(h, clients0, c, "c_fail_close", handlers[h].then)
        ELSE room_connect_failed(h, clients0)

\* The room id and the server info arrive through the HTTP client.
RoomHttpOk(h) ==
    /\ handlers[h].pc = "c_http"
    /\ clients[handlers[h].self].http
    /\ room_awaits(h, clients, handlers[h].self, "c_open", handlers[h].then)
    /\ UNCHANGED << session_vars, plugin_vars >>

\* No room id or no server info: connect() returns False.
RoomHttpFail(h) ==
    /\ handlers[h].pc = "c_http"
    /\ room_connect_failed(h, clients)
    /\ UNCHANGED << session_vars, plugin_vars >>

\* websockets.connect succeeds: ws is the new socket, the auth packet is
\* sent.
RoomOpenOk(h) ==
    /\ handlers[h].pc = "c_open"
    /\ LET c == handlers[h].self
       IN  room_awaits(h, [clients EXCEPT ![c].ws = "open"], c, "c_auth",
                       handlers[h].then)
    /\ UNCHANGED << session_vars, plugin_vars >>

\* websockets.connect times out: connect() returns False.
RoomOpenTimeout(h) ==
    /\ handlers[h].pc = "c_open"
    /\ room_connect_failed(h, clients)
    /\ UNCHANGED << session_vars, plugin_vars >>

\* The auth packet is sent, and connect() waits for the first message; or
\* the socket was closed, or ws set to None, by a disconnect(): an error is
\* raised.
RoomAuthSent(h) ==
    /\ handlers[h].pc = "c_auth"
    /\ LET c == handlers[h].self
       IN  IF clients[c].ws = "open"
           THEN room_awaits(h, clients, c, "c_reply", handlers[h].then)
           ELSE room_connect_raises(h, c)
    /\ UNCHANGED << session_vars, plugin_vars >>

\* The first message arrives on the open socket: running is set, the loops
\* are started, connect() returns True and the coroutine has finished; or
\* the socket was closed: recv raises.
RoomReply(h) ==
    /\ handlers[h].pc = "c_reply"
    /\ LET c == handlers[h].self
       IN  IF clients[c].ws = "open"
           THEN room_ends(h, [clients EXCEPT ![c].running = TRUE,
                                            ![c].loops = TRUE],
                          danmaku_client)
           ELSE room_connect_raises(h, c)
    /\ UNCHANGED << session_vars, plugin_vars >>

\* ws.close() in the except branch is done: ws is set to None, connect()
\* returns False.
RoomFailClosed(h) ==
    /\ handlers[h].pc = "c_fail_close"
    /\ LET c == handlers[h].self
       IN  room_connect_failed(h, [clients EXCEPT ![c].ws = "none"])
    /\ UNCHANGED << session_vars, plugin_vars >>

RoomNext ==
    \E h \in 1 .. MaxHandlers :
        \/ RoomConnect(h)
        \/ RoomDisconnect(h)
        \/ RoomDisconnectWaited(h)
        \/ RoomDisconnectClosed(h)
        \/ RoomDisconnectHttpClosed(h)
        \/ RoomHttpOk(h)
        \/ RoomHttpFail(h)
        \/ RoomOpenOk(h)
        \/ RoomOpenTimeout(h)
        \/ RoomAuthSent(h)
        \/ RoomReply(h)
        \/ RoomFailClosed(h)

RoomSpec == Init /\ [][RoomNext]_vars

(***************************************************************************)
(* PluginManager: the registry, the lifecycle hooks and process_event.     *)
(* A payload is the set of the plugins that have changed it.               *)
(***************************************************************************)

\* The plugin registered under a name: its place in the registry, 0 when
\* the name is not a key of self.plugins.
plugin_index(registry, name) ==
    IF \E k \in 1 .. Len(registry) : registry[k].name = name
    THEN CHOOSE k \in 1 .. Len(registry) : registry[k].name = name
    ELSE 0

\* self.plugins[plugin_instance.name] = plugin_instance: a new key goes
\* last, a key that is there keeps its place and takes the new instance.
registered(registry, p) ==
    IF plugin_index(registry, p.name) # 0
    THEN [k \in 1 .. Len(registry) |->
              IF registry[k].name = p.name THEN p ELSE registry[k]]
    ELSE Append(registry, p)

\* plugin_class() and the saved state: PluginBase.__init__ enables the
\* instance, a state saved by toggle_plugin overrides that.
new_plugin(name, inst) ==
    [name |-> name, inst |-> inst,
     enabled |-> IF plugin_states[name] = "unset" THEN TRUE
                 ELSE plugin_states[name] = "on"]

\* A lifecycle hook of an instance, called or made a task of the loop.
hook_call(hook, inst) == [hook |-> hook, inst |-> inst]

\* The instance a name is registered with, 0 when there is none.
instance_of(registry, name) ==
    IF plugin_index(registry, name) = 0 THEN 0
    ELSE registry[plugin_index(registry, name)].inst

\* The registry is changed between two dispatches only: load_all_plugins
\* runs at startup and nothing in the repository calls reload_plugin while
\* an event is dispatched.
NoDispatch == dispatch.pc # "loop"

\* load_plugin(name) from the instantiation on.
LoadPlugin(name) ==
    /\ NoDispatch
    /\ instances < MaxInstances
    /\ instances' = instances + 1
    /\ plugins' = registered(plugins, new_plugin(name, instances + 1))
    /\ lifecycle' = [op |-> "load", name |-> name,
                     old |-> instance_of(plugins, name), new |-> instances + 1,
                     hooks |-> {hook_call("on_init", instances + 1)}]
    /\ dispatch' = no_dispatch
    /\ UNCHANGED plugin_states
    /\ UNCHANGED << session_vars, room_vars >>

\* toggle_plugin(name, enabled) of a registered plugin; of an unknown name
\* it returns False and changes nothing.
TogglePlugin(name, enabled) ==
    /\ plugin_index(plugins, name) # 0
    /\ plugins' = [plugins EXCEPT ![plugin_index(plugins, name)].enabled = enabled]
    /\ plugin_states' = [plugin_states EXCEPT
                             ![name] = IF enabled THEN "on" ELSE "off"]
    /\ lifecycle' = [op |-> IF enabled THEN "enable" ELSE "disable",
                     name |-> name,
                     old |-> instance_of(plugins, name),
                     new |-> instance_of(plugins, name),
                     hooks |-> {hook_call(IF enabled THEN "on_enable"
                                          ELSE "on_disable",
                                          instance_of(plugins, name))}]
    /\ dispatch' = IF NoDispatch THEN no_dispatch ELSE dispatch
    /\ UNCHANGED instances
    /\ UNCHANGED << session_vars, room_vars >>

\* reload_plugin(name) of a registered plugin: the old instance is deleted
\* from the registry and load_plugin registers a new one.
ReloadPlugin(name) ==
    /\ NoDispatch
    /\ plugin_index(plugins, name) # 0
    /\ instances < MaxInstances
    /\ instances' = instances + 1
    /\ plugins' = registered(SelectSeq(plugins, LAMBDA p : p.name # name),
                             new_plugin(name, instances + 1))
    /\ lifecycle' = [op |-> "reload", name |-> name,
                     old |-> instance_of(plugins, name), new |-> instances + 1,
                     hooks |-> {hook_call("on_init", instances + 1)}]
    /\ dispatch' = no_dispatch
    /\ UNCHANGED plugin_states
    /\ UNCHANGED << session_vars, room_vars >>

\* What an event handler of a plugin does with the dict it is handed:
\*   raised    it raised,
\*   returned  it returned a dict (not None),
\*   value     the dict it returned,
\*   left      the dict it was handed, as the handler left it.
Behaviours == {"pass", "same", "mutate", "replace", "raise", "mutate_raise"}

on_event(behaviour, name, data) ==
    [raised |-> behaviour \in {"raise", "mutate_raise"},
     returned |-> behaviour \in {"same", "replace"},
     value |-> IF behaviour = "replace" THEN data \cup {name} ELSE data,
     left |-> IF behaviour \in {"mutate", "mutate_raise"}
              THEN data \cup {name} ELSE data]

threaded_in_place(outcome) == outcome.left

\* result_data after the try block: the dict the handler returned, or the
\* dict it was handed, which is the one object result_data names.
threaded(outcome) ==
    IF ~outcome.raised /\ outcome.returned THEN outcome.value
    ELSE outcome.left

\* process_event is called: result_data = data.copy().
ProcessEvent ==
    /\ NoDispatch
    /\ dispatch' = [no_dispatch EXCEPT !.pc = "loop", !.i = 1]
    /\ lifecycle' = no_lifecycle
    /\ UNCHANGED << plugins, plugin_states, instances >>
    /\ UNCHANGED << session_vars, room_vars >>

\* The turn of a plugin that is not enabled: continue.
PluginSkipped ==
    /\ dispatch.pc = "loop"
    /\ dispatch.i <= Len(plugins)
    /\ ~plugins[dispatch.i].enabled
    /\ dispatch' = [dispatch EXCEPT
           !.i = @ + 1,
           !.log = Append(@, [name |-> plugins[dispatch.i].name,
                              inst |-> plugins[dispatch.i].inst,
                              invoked |-> FALSE,
                              data |-> dispatch.result_data,
                              outcome |-> [raised |-> FALSE,
                                           returned |-> FALSE,
                                           value |-> {}, left |-> {}]])]
    /\ lifecycle' = no_lifecycle
    /\ UNCHANGED << plugins, plugin_states, instances >>
    /\ UNCHANGED << session_vars, room_vars >>

\* The turn of an enabled plugin: its handler is awaited with result_data.
PluginInvoked ==
    /\ dispatch.pc = "loop"
    /\ dispatch.i <= Len(plugins)
    /\ plugins[dispatch.i].enabled
    /\ \E behaviour \in Behaviours :
           LET outcome == on_event(behaviour, plugins[dispatch.i].name,
                                   dispatch.result_data)
           IN  dispatch' = [dispatch EXCEPT
                   !.i = @ + 1,
                   !.result_data = threaded(outcome),
                   !.log = Append(@, [name |-> plugins[dispatch.i].name,
                                      inst |-> plugins[dispatch.i].inst,
                                      invoked |-> TRUE,
                                      data |-> dispatch.result_data,
                                      outcome |-> outcome])]
    /\ lifecycle' = no_lifecycle
    /\ UNCHANGED << plugins, plugin_states, instances >>
    /\ UNCHANGED << session_vars, room_vars >>

\* The loop is over: return result_data.
ProcessEventReturns ==
    /\ dispatch.pc = "loop"
    /\ dispatch.i > Len(plugins)
    /\ dispatch' = [dispatch EXCEPT !.pc = "done"]
    /\ lifecycle' = no_lifecycle
    /\ UNCHANGED << plugins, plugin_states, instances >>
    /\ UNCHANGED << session_vars, room_vars >>

PluginNext ==
    \/ \E name \in PluginFiles : LoadPlugin(name)
    \/ \E name \in PluginFiles, enabled \in BOOLEAN : TogglePlugin(name, enabled)
    \/ \E name \in PluginFiles : ReloadPlugin(name)
    \/ ProcessEvent
    \/ PluginSkipped
    \/ PluginInvoked
    \/ ProcessEventReturns

PluginSpec == Init /\ [][PluginNext]_vars

(***************************************************************************)
(* _handle_packet, one iteration of its while loop at a time, on buffers   *)
(* of noise around one header.                                             *)
(***************************************************************************)
MaxNoise == 20

\* The header under test: a heartbeat reply of 20 bytes with one of the
\* three fields the scan checks moved to a limit, on either side of it.
ProbeHeaders ==
    LET probe(packet_length, header_length, operation) ==
            [packet_length    |-> u32(packet_length),
             header_length    |-> header_length,
             protocol_version |-> 0,
             operation        |-> u32(operation),
             sequence_id      |-> u32(1)]
    IN  { probe(packet_length, 16, HEARTBEAT_REPLY) :
            packet_length \in {15, 16, 20, 10000, 10001, 65556} }
          \cup { probe(20, 17, HEARTBEAT_REPLY) }
          \cup { probe(20, 16, operation) :
                   operation \in {0, 1000, 1001, 65536} }

\* before bytes of noise, the header, four bytes of body and after bytes of
\* noise.
ScanInputs ==
    { [n \in 1 .. before |-> 255] \o to_bytes(h) \o << 0, 0, 0, 42 >>
          \o [n \in 1 .. after |-> 255] :
        before \in 0 .. MaxNoise, h \in ProbeHeaders, after \in {0, 16} }

\* One iteration of the while loop, or the code behind the loop when the
\* loop is left.  skips counts the single-byte skips since the last frame,
\* tested the candidate offsets of the last scan.
scan_step(s) ==
    LET buffer_len == Len(s.input)
        left == [s EXCEPT !.pc = "returned",
                          !.buffer = scan_result(s.input, s.offset,
                                                 s.error_count, << >>).rest]
    IN  IF ~(s.offset < buffer_len /\ s.error_count < max_errors) THEN left
        ELSE IF buffer_len - s.offset < 16 THEN left
        ELSE LET hits == sync_hits(s.input, s.offset)
                 tested == IF hits = {}
                           THEN MaxOf({0, sync_window(buffer_len, s.offset)})
                           ELSE MinOf(hits) + 1
             IN  IF hits = {}
                 THEN [s EXCEPT !.offset = s.offset + 1,
                                !.error_count = s.error_count + 1,
                                !.skips = s.skips + 1,
                                !.tested = tested]
                 ELSE LET test_offset == s.offset + MinOf(hits)
                          header == from_bytes(SliceFrom(s.input, test_offset))
                          length == header.packet_length.lo
                      IN  IF buffer_len - test_offset < length
                          THEN [left EXCEPT
                                  !.offset = test_offset,
                                  !.tested = tested,
                                  !.buffer = scan_result(s.input, test_offset,
                                               s.error_count, << >>).rest]
                          ELSE [s EXCEPT !.offset = test_offset + length,
                                         !.error_count = 0,
                                         !.skips = 0,
                                         !.tested = tested,
                                         !.accepted = Append(s.accepted, header)]

\* _handle_packet is called on a buffer.
ScanCall ==
    /\ scan.pc = "idle"
    /\ \E input \in ScanInputs :
           scan' = [pc |-> "loop", input |-> input, buffer |-> input,
                    offset |-> 0, error_count |-> 0, skips |-> 0,
                    tested |-> 0, accepted |-> << >>]
    /\ UNCHANGED << codec_vars, client_vars, sockets, tasks, event >>
    /\ UNCHANGED << enhanced_vars, room_vars, plugin_vars, packed, parsed,
                    user_first_seen, user_enter_history, dispatched,
                    later_vars >>

ScanStep ==
    /\ scan.pc = "loop"
    /\ scan' = scan_step(scan)
    /\ UNCHANGED << codec_vars, client_vars, sockets, tasks, event >>
    /\ UNCHANGED << enhanced_vars, room_vars, plugin_vars, packed, parsed,
                    user_first_seen, user_enter_history, dispatched,
                    later_vars >>

\* The call runs on: nothing but its own steps moves it.
ScanSpec == CodecInit /\ [][ScanCall \/ ScanStep]_vars /\ WF_vars(ScanStep)

(***************************************************************************)
(* PacketHeader on its own: to_bytes and from_bytes on headers whose       *)
(* fields are zero, the largest value, and values whose bytes all differ.  *)
(***************************************************************************)
Words32 ==
    { u32(0), u32(16), [hi |-> 258, lo |-> 772], [hi |-> 65535, lo |-> 65535] }

Words16 == {0, 16, 258, 65535}

PackHeader ==
    /\ packed.kind = "none"
    /\ \E packet_length \in Words32, header_length \in Words16,
          protocol_version \in Words16, operation \in Words32,
          sequence_id \in Words32 :
           LET h == [packet_length    |-> packet_length,
                     header_length    |-> header_length,
                     protocol_version |-> protocol_version,
                     operation        |-> operation,
                     sequence_id      |-> sequence_id]
           IN  packed' = [kind |-> "header", h |-> h, bytes |-> to_bytes(h),
                          back |-> from_bytes(to_bytes(h))]
    /\ UNCHANGED << codec_vars, client_vars, sockets, tasks, event >>
    /\ UNCHANGED << enhanced_vars, room_vars, plugin_vars, scan, parsed,
                    user_first_seen, user_enter_history, dispatched,
                    later_vars >>

HeaderSpec == CodecInit /\ [][PackHeader]_vars

(***************************************************************************)
(* interact_word_v2_parser.py without pure-protobuf: parse decodes the     *)
(* base64 text and _parse_simple walks the record.  A text is a sequence   *)
(* of the values 0..63 of its characters, with 64 for the padding "=".     *)
(***************************************************************************)
\* base64.b64encode, which the server applies to the record.
RECURSIVE b64encode(_)
b64encode(data) ==
    IF data = << >> THEN << >>
    ELSE IF Len(data) = 1
    THEN << data[1] \div 4, (data[1] % 4) * 16, 64, 64 >>
    ELSE IF Len(data) = 2
    THEN << data[1] \div 4, (data[1] % 4) * 16 + data[2] \div 16,
            (data[2] % 16) * 4, 64 >>
    ELSE << data[1] \div 4, (data[1] % 4) * 16 + data[2] \div 16,
            (data[2] % 16) * 4 + data[3] \div 64, data[3] % 64 >>
           \o b64encode(SubSeq(data, 4, Len(data)))

\* base64.b64decode on a text whose padding, if any, is at its end:
\* binascii.Error when the characters in front of the padding do not fill
\* the last group of four and the padding does not complete it.
b64decode(text) ==
    LET n == Cardinality({ k \in 1 .. Len(text) : text[k] < 64 })
        pads == Len(text) - n
        RECURSIVE bytes_of(_)
        bytes_of(k) ==
            IF k + 4 <= n
            THEN << text[k + 1] * 4 + text[k + 2] \div 16,
                    (text[k + 2] % 16) * 16 + text[k + 3] \div 4,
                    (text[k + 3] % 4) * 64 + text[k + 4] >> \o bytes_of(k + 4)
            ELSE IF k + 3 = n
            THEN << text[k + 1] * 4 + text[k + 2] \div 16,
                    (text[k + 2] % 16) * 16 + text[k + 3] \div 4 >>
            ELSE IF k + 2 = n
            THEN << text[k + 1] * 4 + text[k + 2] \div 16 >>
            ELSE << >>
    IN  IF \/ n % 4 = 1
           \/ n % 4 = 2 /\ pads < 2
           \/ n % 4 = 3 /\ pads < 1
        THEN [ok |-> FALSE, data |-> << >>]
        ELSE [ok |-> TRUE, data |-> bytes_of(0)]

\* bytes.decode('utf-8') on the bytes of the model, ASCII or 255, raises
\* UnicodeDecodeError on 255.
utf8_valid(data) == \A k \in 1 .. Len(data) : data[k] < 128

\* A Python int below 2^70 as three limbs of 28 bits, and as the model
\* holds it: a number when it is below 2^28, else its limbs.
limbs_of(lo) == [hi |-> 0, mid |-> 0, lo |-> lo]

int_of(limbs) == IF limbs.hi = 0 /\ limbs.mid = 0 THEN limbs.lo ELSE limbs

\* value |= group << shift: the bits the group is shifted to are 0 before,
\* so the group is added to the limb shift falls into.
or_shifted(read, group, shift) ==
    IF shift \div 28 = 0 THEN [read EXCEPT !.lo = @ + group * 2 ^ (shift % 28)]
    ELSE IF shift \div 28 = 1
    THEN [read EXCEPT !.mid = @ + group * 2 ^ (shift % 28)]
    ELSE [read EXCEPT !.hi = @ + group * 2 ^ (shift % 28)]

\* The varint loop from its second pass on, read holding the limbs read.
RECURSIVE varint_loop(_, _, _, _)
varint_loop(data, i, read, shift) ==
    IF ~(i < Len(data)) THEN [value |-> int_of(read), i |-> i]
    ELSE IF data[i + 1] < 128 \/ shift + 7 > 63
    THEN [value |-> int_of(or_shifted(read, data[i + 1] % 128, shift)),
          i |-> i + 1]
    ELSE varint_loop(data, i + 1, or_shifted(read, data[i + 1] % 128, shift),
                     shift + 7)

read_varint_first_byte(data, i, value, shift) ==
    IF ~(i < Len(data)) THEN [value |-> value, i |-> i]
    ELSE [value |-> data[i + 1] % 128, i |-> i + 1]

\* The varint loop of _parse_simple and _parse_user_info from index i on:
\* the value read and the index behind the bytes read.
read_varint(data, i, value, shift) ==
    varint_loop(data, i, limbs_of(value), shift)

\* _parse_user_info: the dict it returns, as the set of its keys and their
\* values.
parse_user_info(data) ==
    LET RECURSIVE loop(_, _)
        loop(i, result) ==
            IF ~(i < Len(data)) THEN result
            ELSE LET field_num == data[i + 1] \div 8
                     wire_type == data[i + 1] % 8
                 IN  IF wire_type = 0
                     THEN LET skipped == read_varint(data, i + 1, 0, 0)
                          IN  loop(skipped.i, result)
                     ELSE IF wire_type = 2
                     THEN LET length == read_varint(data, i + 1, 0, 0)
                              stop == length.i + length.value
                              string_data == Slice(data, length.i, stop)
                          IN  IF ~(stop <= Len(data)) THEN result
                              ELSE IF ~utf8_valid(string_data)
                              THEN loop(stop, result)
                              ELSE IF field_num = 1
                              THEN loop(stop, [result EXCEPT
                                     !.keys = @ \cup {"face"},
                                     !.face = string_data])
                              ELSE IF field_num = 2
                              THEN loop(stop, [result EXCEPT
                                     !.keys = @ \cup {"name"},
                                     !.name = string_data])
                              ELSE loop(stop, result)
                     ELSE IF wire_type = 5 THEN loop(i + 5, result)
                     ELSE result
    IN  loop(0, [keys |-> {}, name |-> << >>, face |-> << >>])

\* _parse_simple: the dict it returns, as the set of its keys and their
\* values; the four necessary keys are filled in behind the loop.
parse_simple(pb_bytes) ==
    LET RECURSIVE loop(_, _)
        loop(i, result) ==
            IF ~(i < Len(pb_bytes)) THEN result
            ELSE LET field_num == pb_bytes[i + 1] \div 8
                     wire_type == pb_bytes[i + 1] % 8
                 IN  IF wire_type = 0
                     THEN LET read == read_varint(pb_bytes, i + 1, 0, 0)
                          IN  IF field_num = 1
                              THEN loop(read.i, [result EXCEPT
                                     !.keys = @ \cup {"uid"},
                                     !.uid = read.value])
                              ELSE IF field_num = 5
                              THEN loop(read.i, [result EXCEPT
                                     !.keys = @ \cup {"msg_type"},
                                     !.msg_type = read.value])
                              ELSE IF field_num = 6
                              THEN loop(read.i, [result EXCEPT
                                     !.keys = @ \cup {"timestamp"},
                                     !.timestamp = read.value])
                              ELSE loop(read.i, result)
                     ELSE IF wire_type = 2
                     THEN LET length == read_varint(pb_bytes, i + 1, 0, 0)
                              stop == length.i + length.value
                              data == Slice(pb_bytes, length.i, stop)
                              user_info == parse_user_info(data)
                              named == IF /\ "name" \in user_info.keys
                                          /\ result.uname = << >>
                                       THEN [result EXCEPT
                                               !.keys = @ \cup {"uname"},
                                               !.uname = user_info.name]
                                       ELSE result
                              faced == IF "face" \in user_info.keys
                                       THEN [named EXCEPT
                                               !.keys = @ \cup {"face"},
                                               !.face = user_info.face]
                                       ELSE named
                          IN  IF ~(stop <= Len(pb_bytes)) THEN result
                              ELSE IF field_num = 3 THEN loop(stop, faced)
                              ELSE IF ~utf8_valid(data) THEN loop(stop, result)
                              ELSE IF field_num = 2
                              THEN loop(stop, [result EXCEPT
                                     !.keys = @ \cup {"uname"},
                                     !.uname = data])
                              ELSE IF field_num = 4
                              THEN loop(stop, [result EXCEPT
                                     !.keys = @ \cup {"face"},
                                     !.face = data])
                              ELSE loop(stop, result)
                     ELSE IF wire_type = 5 THEN loop(i + 5, result)
                     ELSE result
        read == loop(0, [keys |-> {}, uid |-> 0, uname |-> << >>,
                         msg_type |-> 0, timestamp |-> 0, face |-> << >>])
    IN  [none      |-> FALSE,
         uid       |-> IF "uid" \in read.keys THEN read.uid ELSE 0,
         uname     |-> IF "uname" \in read.keys THEN read.uname ELSE << >>,
         msg_type  |-> IF "msg_type" \in read.keys THEN read.msg_type ELSE 1,
         timestamp |-> IF "timestamp" \in read.keys THEN read.timestamp ELSE 0,
         has_face  |-> "face" \in read.keys,
         face      |-> read.face]

\* InteractWordV2Parser.parse and parse_interact_word_v2: None when
\* b64decode raises.
parse(pb_data) ==
    IF b64decode(pb_data).ok THEN parse_simple(b64decode(pb_data).data)
    ELSE [none |-> TRUE]

MaxFields == 2

\* The fields of the records: what a field is to the decoder (kind), the
\* key it carries and its value (num or text), and its bytes.
RecordFields ==
    LET item(kind, key, num, text, bytes) ==
            [kind |-> kind, key |-> key, num |-> num, text |-> text,
             bytes |-> bytes]
    IN  { item("known", "uid", 7, << >>, << 8, 7 >>),
          item("known", "uid", 148, << >>, << 8, 148, 1 >>),
          item("known", "uname", 0, txt_ab, << 18, 2 >> \o txt_ab),
          item("known", "msg_type", 2, << >>, << 40, 2 >>),
          item("known", "timestamp", 5, << >>, << 48, 5 >>),
          item("nested", "uname", 0, txt_hi, << 26, 4, 18, 2 >> \o txt_hi),
          item("undecodable", "uname", 0, << >>, << 18, 1, 255 >>),
          item("unknown_number", "", 0, << >>, << 56, 1 >>),
          item("unknown_number", "", 0, << >>, << 74, 1, 0 >>),
          item("unknown_number", "", 0, << >>, << 69, 0, 0, 0, 0 >>),
          item("unknown_wire", "", 0, << >>, << 73, 0, 0, 0, 0, 0, 0, 0, 0 >>),
          item("unknown_wire", "", 0, << >>, << 75 >>) }

Records == UNION { [1 .. n -> RecordFields] : n \in 0 .. MaxFields }

\* parse_interact_word_v2 on the text of a record, whole or without its
\* last cut bytes, the text whole or without its last character.
ParseRecord ==
    /\ parsed.kind = "none"
    /\ \E fields \in Records, cut \in 0 .. 2, clipped \in BOOLEAN :
          LET whole == Concat([k \in 1 .. Len(fields) |-> fields[k].bytes])
              pb_bytes == SubSeq(whole, 1, Len(whole) - cut)
              text == b64encode(pb_bytes)
              pb_data == IF clipped THEN SubSeq(text, 1, Len(text) - 1)
                         ELSE text
          IN  /\ cut > 0 => fields # << >> /\ cut < Len(fields[Len(fields)].bytes)
              /\ clipped => text # << >>
              /\ parsed' = [kind |-> "record", fields |-> fields, cut |-> cut,
                            clipped |-> clipped, pb_bytes |-> pb_bytes,
                            pb_data |-> pb_data, result |-> parse(pb_data)]
    /\ UNCHANGED << codec_vars, client_vars, sockets, tasks, event >>
    /\ UNCHANGED << enhanced_vars, room_vars, plugin_vars, scan, packed,
                    user_first_seen, user_enter_history, dispatched,
                    later_vars >>

RecordSpec == CodecInit /\ [][ParseRecord]_vars

(***************************************************************************)
(* _dispatch_message on the state of the client: user_first_seen,          *)
(* user_enter_history, the callbacks and the plugins behind                *)
(* plugin_manager.  A state st is the two collections and the invocations  *)
(* made so far, each with the uid and the name it carries.                 *)
(***************************************************************************)
\* _clean_username on the names of the model, which hold no URL: control
\* characters are removed, runs of white space become one space, the ends are
\* stripped, 20 characters are kept; a name of which nothing is left becomes
\* the two characters of "用户".
clean_username(username) ==
    LET white == {9, 10, 13, 32}
        RECURSIVE joined(_, _, _)
        joined(k, out, gap) ==
            IF k > Len(username) THEN out
            ELSE IF username[k] < 32 /\ username[k] \notin white
            THEN joined(k + 1, out, gap)
            ELSE IF username[k] \in white THEN joined(k + 1, out, TRUE)
            ELSE IF gap /\ out # << >>
            THEN joined(k + 1, out \o << 32, username[k] >>, FALSE)
            ELSE joined(k + 1, Append(out, username[k]), FALSE)
        whole == joined(1, << >>, FALSE)
        limited == IF Len(whole) > 20
                   THEN IF whole[20] = 32 THEN SubSeq(whole, 1, 19)
                        ELSE SubSeq(whole, 1, 20)
                   ELSE whole
    IN  IF username = << >> THEN username
        ELSE IF limited = << >> THEN << 29992, 25143 >>
        ELSE limited

trigger_user_enter_again(user_name, user_uid, st, listening) ==
    LET entered(clean_name) ==
            [st EXCEPT
               !.user_enter_history = @ \cup {<< user_uid, clean_name >>},
               !.events = IF listening
                          THEN Append(@, [callback |-> "plugin.on_interact",
                                          uid |-> user_uid,
                                          uname |-> clean_name])
                          ELSE @]
    IN  entered(clean_username(user_name))

\* _trigger_user_enter; listening: plugin_manager is set and a plugin is
\* enabled.
trigger_user_enter(user_name, user_uid, st, listening) ==
    LET entered(clean_name) ==
            IF << user_uid, clean_name >> \in st.user_enter_history THEN st
            ELSE [st EXCEPT
                    !.user_enter_history = @ \cup {<< user_uid, clean_name >>},
                    !.events = IF listening
                               THEN Append(@, [callback |-> "plugin.on_interact",
                                               uid |-> user_uid,
                                               uname |-> clean_name])
                               ELSE @]
    IN  entered(clean_username(user_name))

\* _handle_danmaku with the first-appearance detection.
client_handle_danmaku(msg, st, registered_callbacks, listening) ==
    LET info == msg.info
        first(user_uid, user_name) ==
            /\ user_uid # 0
            /\ user_name # << >>
            /\ \A seen \in st.user_first_seen : seen[1] # user_uid
        called(entered, user_uid, user_name) ==
            IF "on_danmaku" \in registered_callbacks
            THEN [entered EXCEPT !.events =
                    Append(@, [callback |-> "on_danmaku", uid |-> user_uid,
                               uname |-> user_name])]
            ELSE entered
        with_user(user_uid, user_name) ==
            called(IF first(user_uid, user_name)
                   THEN trigger_user_enter(user_name, user_uid,
                          [st EXCEPT !.user_first_seen =
                             @ \cup {<< user_uid, user_name >>}],
                          listening)
                   ELSE st,
                   user_uid, user_name)
    IN  IF Len(info) < 3 THEN st
        ELSE IF Len(info[3]) < 5 THEN st
        ELSE with_user(info[3][1], info[3][2])

\* _handle_interact_v2.
client_handle_interact_v2(msg, st, registered_callbacks, listening) ==
    LET called(entered, uid, uname) ==
            IF "on_interact" \in registered_callbacks
            THEN [entered EXCEPT !.events =
                    Append(@, [callback |-> "on_interact", uid |-> uid,
                               uname |-> uname])]
            ELSE entered
        entering(uid, uname, msg_type, clean_uname) ==
            called(IF msg_type = 1 /\ uid # 0 /\ clean_uname # << >>
                   THEN trigger_user_enter(clean_uname, uid,
                          [st EXCEPT !.user_first_seen =
                             IF \A seen \in @ : seen[1] # uid
                             THEN @ \cup {<< uid, clean_uname >>}
                             ELSE @],
                          listening)
                   ELSE st,
                   uid, uname)
        with_data(interact_data) ==
            IF interact_data.none THEN st
            ELSE entering(interact_data.uid, interact_data.uname,
                          interact_data.msg_type,
                          clean_username(interact_data.uname))
    IN  IF msg.data.pb = << >> THEN st
        ELSE with_data(parse(msg.data.pb))

\* dict.get(key, default) on a dict whose keys are the fields of the record.
get(d, key, default) == IF key \in DOMAIN d THEN d[key] ELSE default

\* The first-appearance detection of _handle_gift, _handle_superchat and
\* _handle_guard; a uid or name that is missing (None) is 0 or << >> here.
first_appearance(user_uid, user_name, st, listening) ==
    IF /\ user_uid # 0
       /\ user_name # << >>
       /\ \A seen \in st.user_first_seen : seen[1] # user_uid
    THEN trigger_user_enter(user_name, user_uid,
           [st EXCEPT !.user_first_seen = @ \cup {<< user_uid, user_name >>}],
           listening)
    ELSE st

client_handle_gift_strict(msg, st, registered_callbacks, listening) ==
    LET emitted(data_info, entered) ==
            IF "on_gift" \in registered_callbacks
                 /\ {"num", "price", "total_coin", "timestamp"} \subseteq DOMAIN data_info
            THEN [entered EXCEPT !.events =
                    Append(@, [callback |-> "on_gift",
                               uid |-> get(data_info, "uid", 0),
                               uname |-> get(data_info, "uname", << >>),
                               num |-> data_info.num,
                               price |-> data_info.price,
                               total_coin |-> data_info.total_coin,
                               timestamp |-> data_info.timestamp])]
            ELSE entered
        with_data(data_info) ==
            emitted(data_info,
                    first_appearance(get(data_info, "uid", 0),
                                     get(data_info, "uname", << >>), st, listening))
    IN  with_data(get(msg, "data", << >>))

\* _handle_gift.
client_handle_gift(msg, st, registered_callbacks, listening) ==
    LET emitted(data_info, entered) ==
            IF "on_gift" \in registered_callbacks
            THEN [entered EXCEPT !.events =
                    Append(@, [callback |-> "on_gift",
                               uid |-> get(data_info, "uid", 0),
                               uname |-> get(data_info, "uname", << >>),
                               num |-> get(data_info, "num", 1),
                               price |-> get(data_info, "price", 0),
                               total_coin |-> get(data_info, "total_coin", 0),
                               timestamp |-> get(data_info, "timestamp", 0)])]
            ELSE entered
        with_data(data_info) ==
            emitted(data_info,
                    first_appearance(get(data_info, "uid", 0),
                                     get(data_info, "uname", << >>), st, listening))
    IN  with_data(get(msg, "data", << >>))

\* _handle_superchat.
client_handle_superchat(msg, st, registered_callbacks, listening) ==
    LET emitted(data_info, uname, entered) ==
            IF "on_superchat" \in registered_callbacks
            THEN [entered EXCEPT !.events =
                    Append(@, [callback |-> "on_superchat",
                               uid |-> get(data_info, "uid", 0),
                               uname |-> uname,
                               price |-> get(data_info, "price", 0),
                               start_time |-> get(data_info, "start_time", 0),
                               end_time |-> get(data_info, "end_time", 0)])]
            ELSE entered
        with_user(data_info, uname) ==
            emitted(data_info, uname,
                    first_appearance(get(data_info, "uid", 0), uname, st, listening))
        with_data(data_info) ==
            with_user(data_info,
                      get(get(data_info, "user_info", << >>), "uname", << >>))
    IN  with_data(get(msg, "data", << >>))

\* _handle_guard.
client_handle_guard(msg, st, registered_callbacks, listening) ==
    LET emitted(data_info, entered) ==
            IF "on_guard" \in registered_callbacks
            THEN [entered EXCEPT !.events =
                    Append(@, [callback |-> "on_guard",
                               uid |-> get(data_info, "uid", 0),
                               uname |-> get(data_info, "username", << >>),
                               guard_level |-> get(data_info, "guard_level", 3),
                               price |-> get(data_info, "price", 0),
                               num |-> get(data_info, "num", 1),
                               start_time |-> get(data_info, "start_time", 0)])]
            ELSE entered
        with_data(data_info) ==
            emitted(data_info,
                    first_appearance(get(data_info, "uid", 0),
                                     get(data_info, "username", << >>), st, listening))
    IN  with_data(get(msg, "data", << >>))

client_dispatch_message_any(msg, st, registered_callbacks, listening) ==
    IF msg.cmd = "INTERACT_WORD_V2"
    THEN client_handle_interact_v2(msg, st, registered_callbacks, listening)
    ELSE client_handle_danmaku(msg, st, registered_callbacks, listening)

\* _dispatch_message for the commands of the model.
client_dispatch_message(msg, st, registered_callbacks, listening) ==
    IF msg.cmd = "DANMU_MSG"
    THEN client_handle_danmaku(msg, st, registered_callbacks, listening)
    ELSE IF msg.cmd = "SEND_GIFT"
    THEN client_handle_gift(msg, st, registered_callbacks, listening)
    ELSE IF msg.cmd = "SUPER_CHAT_MESSAGE"
    THEN client_handle_superchat(msg, st, registered_callbacks, listening)
    ELSE IF msg.cmd = "GUARD_BUY"
    THEN client_handle_guard(msg, st, registered_callbacks, listening)
    ELSE IF msg.cmd = "INTERACT_WORD_V2"
    THEN client_handle_interact_v2(msg, st, registered_callbacks, listening)
    ELSE st

MaxCommands == 2

\* The names the commands carry: none, a name, a blank, a name between
\* blanks, a control character, and a name of 22 characters.
Names ==
    { << >>, txt_ab, << 32 >>, << 32 >> \o txt_ab \o << 32 >>, << 1 >>,
      [k \in 1 .. 22 |-> 97] }

\* The commands json.loads returns: chat and entry commands with or without
\* a uid and a name, and commands _dispatch_message does not know, one of
\* them without "cmd" (msg.get gives '').  carried is what the command
\* holds of the user.
DecodedCommands ==
    { [cmd |-> "DANMU_MSG", info |-> << << >>, txt_hi, << uid, uname, 0, 0, 0 >> >>,
       carried |-> [uid |-> uid, uname |-> uname]] :
          uid \in {0, 7}, uname \in Names }
      \cup { [cmd |-> "INTERACT_WORD_V2",
              data |-> [pb |-> b64encode(
                          (IF uid = 0 THEN << >> ELSE << 8, uid >>)
                            \o (IF uname = << >> THEN << >>
                                ELSE << 18, Len(uname) >> \o uname)
                            \o << 40, msg_type >>)],
              carried |-> [uid |-> uid, uname |-> uname]] :
                 uid \in {0, 7}, uname \in Names, msg_type \in {1, 2} }
      \cup { [cmd |-> cmd, info |-> << << >>, txt_hi, << 7, txt_ab, 0, 0, 0 >> >>,
              data |-> [pb |-> b64encode(<< 8, 7, 18, 2 >> \o txt_ab)],
              carried |-> [uid |-> 7, uname |-> txt_ab]] :
                 cmd \in {"", "NEW_CMD", "DANMU_MSG_MIRROR"} }

\* One decoded command reaches _dispatch_message.
DispatchCommand ==
    /\ dispatched.n < MaxCommands
    /\ \E msg \in DecodedCommands, listening \in BOOLEAN :
          LET handled_as(st) ==
                  /\ user_first_seen' = st.user_first_seen
                  /\ user_enter_history' = st.user_enter_history
                  /\ dispatched' = [n |-> dispatched.n + 1, cmd |-> msg.cmd,
                                    carried |-> msg.carried,
                                    listening |-> listening,
                                    events |-> st.events]
          IN  handled_as(client_dispatch_message(msg,
                           [user_first_seen |-> user_first_seen,
                            user_enter_history |-> user_enter_history,
                            events |-> << >>],
                           callbacks, listening))
    /\ UNCHANGED << codec_vars, client_vars, sockets, tasks, event >>
    /\ UNCHANGED << enhanced_vars, room_vars, plugin_vars, scan, packed,
                    parsed, later_vars >>

DispatchSpec == Init /\ [][DispatchCommand]_vars

(***************************************************************************)
(* One client over a sequence of chat, gift, paid-message, subscription    *)
(* and viewer-join commands.                                               *)
(***************************************************************************)
MaxEvents == 2

\* A record with the fields of full that are in keys.
Restrict(full, keys) == [k \in keys |-> full[k]]

\* The name ab with and without blanks around it, and another name.
EventNames == { txt_ab, << 32 >> \o txt_ab \o << 32 >>, txt_hi }

gift_data == [uid |-> 7, uname |-> txt_ab, num |-> 5, price |-> 100,
              total_coin |-> 500, timestamp |-> 1700]

superchat_data == [uid |-> 7, user_info |-> [uname |-> txt_ab], price |-> 30,
                   start_time |-> 1700, end_time |-> 1760]

guard_data == [uid |-> 8, username |-> txt_ab, guard_level |-> 2,
               price |-> 198, num |-> 2, start_time |-> 1700]

\* The commands json.loads returns; every subset of the fields of "data"
\* may be missing, and "data" itself.
EventCommands ==
    { [cmd |-> "DANMU_MSG", info |-> << << >>, txt_hi, << uid, uname, 0, 0, 0 >> >>] :
          uid \in {7, 8}, uname \in EventNames }
      \cup { [cmd |-> "INTERACT_WORD_V2",
              data |-> [pb |-> b64encode(<< 8, uid, 18, Len(uname) >> \o uname
                                           \o << 40, 1 >>)]] :
                 uid \in {7, 8}, uname \in EventNames }
      \cup { [cmd |-> "SEND_GIFT", data |-> Restrict(gift_data, keys)] :
                 keys \in SUBSET DOMAIN gift_data }
      \cup { [cmd |-> "SUPER_CHAT_MESSAGE", data |-> Restrict(superchat_data, keys)] :
                 keys \in SUBSET DOMAIN superchat_data }
      \cup { [cmd |-> "GUARD_BUY", data |-> Restrict(guard_data, keys)] :
                 keys \in SUBSET DOMAIN guard_data }
      \cup { [cmd |-> cmd] : cmd \in {"SEND_GIFT", "SUPER_CHAT_MESSAGE", "GUARD_BUY"} }

\* One decoded command reaches _dispatch_message; entered collects the
\* user-enter events handed to the plugins so far.
DispatchEvent ==
    /\ applied.kind \in {"none", "events"}
    /\ applied.kind = "events" => applied.n < MaxEvents
    /\ \E msg \in EventCommands, listening \in BOOLEAN :
          LET handled_as(st, n, entered) ==
                  /\ user_first_seen' = st.user_first_seen
                  /\ user_enter_history' = st.user_enter_history
                  /\ applied' = [kind |-> "events", n |-> n + 1, msg |-> msg,
                                 listening |-> listening, events |-> st.events,
                                 entered |-> entered \o SelectSeq(st.events,
                                     LAMBDA e : e.callback = "plugin.on_interact")]
          IN  handled_as(client_dispatch_message(msg,
                           [user_first_seen |-> user_first_seen,
                            user_enter_history |-> user_enter_history,
                            events |-> << >>],
                           callbacks, listening),
                         IF applied.kind = "events" THEN applied.n ELSE 0,
                         IF applied.kind = "events" THEN applied.entered
                         ELSE << >>)
    /\ UNCHANGED << codec_vars, client_vars, sockets, tasks, event >>
    /\ UNCHANGED << enhanced_vars, room_vars, plugin_vars, scan, packed,
                    parsed, dispatched, sender_vars >>

EventSpec == Init /\ [][DispatchEvent]_vars

(***************************************************************************)
(* _parse_simple on a record of one number.                                *)
(***************************************************************************)
\* The numbers below 2^63, by their limbs.
Numbers ==
    { [hi |-> hi, mid |-> mid, lo |-> lo] :
        hi \in {0, 1, 127},
        mid \in {0, 1, 128, 2 ^ 28 - 1},
        lo \in {0, 1, 127, 128, 300, 2 ^ 21, 2 ^ 28 - 1} }

\* The canonical varint of a number: its groups of 7 bits, the lowest first,
\* up to the highest that is not 0, each but the last with bit 7 set.
varint(v) ==
    LET group(k) == IF k < 4 THEN (v.lo \div 2 ^ (7 * k)) % 128
                    ELSE IF k < 8 THEN (v.mid \div 2 ^ (7 * (k - 4))) % 128
                    ELSE (v.hi \div 2 ^ (7 * (k - 8))) % 128
        last == IF \A k \in 0 .. 9 : group(k) = 0 THEN 0
                ELSE MaxOf({ k \in 0 .. 9 : group(k) # 0 })
    IN  [k \in 1 .. last + 1 |->
            IF k = last + 1 THEN group(k - 1) ELSE group(k - 1) + 128]

\* _parse_simple on the record that holds v in the field field_num.
ParseNumber ==
    /\ applied.kind = "none"
    /\ \E v \in Numbers, field_num \in {1, 5, 6, 7} :
          applied' = [kind |-> "number", v |-> v, field_num |-> field_num,
                      pb_bytes |-> << field_num * 8 >> \o varint(v),
                      read |-> read_varint(varint(v), 0, 0, 0),
                      result |-> parse_simple(<< field_num * 8 >> \o varint(v))]
    /\ UNCHANGED << codec_vars, client_vars, sockets, tasks, event >>
    /\ UNCHANGED << enhanced_vars, room_vars, plugin_vars, first_units,
                    sender_vars >>

NumberSpec == CodecInit /\ [][ParseNumber]_vars

(***************************************************************************)
(* _parse_messages, one iteration of its while loop at a time.             *)
(***************************************************************************)
MaxIterations == 3

\* An inner frame whose header declares any total_length.
inner_frame(packet_length, operation, body) ==
    to_bytes([packet_length    |-> u32(packet_length),
              header_length    |-> 16,
              protocol_version |-> 0,
              operation        |-> u32(operation),
              sequence_id      |-> u32(1)]) \o body

InnerFrames ==
    { inner_frame(Len(body) + declared.add, operation, body) :
        declared \in { [add |-> 0], [add |-> 5] },
        operation \in {SEND_MSG_REPLY, HEARTBEAT_REPLY},
        body \in { << >>, json_text(danmu_msg(7, txt_ab, txt_hi)) } }
      \cup { inner_frame(packet_length, operation, body) :
               packet_length \in {0, 1, 15},
               operation \in {SEND_MSG_REPLY, HEARTBEAT_REPLY},
               body \in { << >>, json_text(danmu_msg(7, txt_ab, txt_hi)) } }

Payloads ==
    InnerFrames \cup { first \o second : first \in InnerFrames, second \in InnerFrames }
      \cup { << >>, << 0, 0, 0 >> }

\* The body of the while loop, entered with offset < len(data): the offset
\* after it and whether the loop was left by the except branch.
parse_iteration(data, offset, registered_callbacks) ==
    IF ~header_fits(SliceFrom(data, offset))
    THEN [offset |-> offset, left |-> TRUE, events |-> << >>]
    ELSE LET header == from_bytes(SliceFrom(data, offset))
             far == header.packet_length.hi > 0
             stop == IF far THEN Len(data) ELSE offset + header.packet_length.lo
             body == IF stop <= offset + 16 THEN << >>
                     ELSE Slice(data, offset + 16, stop)
         IN  IF header.operation = u32(SEND_MSG_REPLY) /\ body = << 49 >>
             THEN [offset |-> offset, left |-> TRUE, events |-> << >>]
             ELSE [offset |-> stop, left |-> FALSE,
                   events |-> IF /\ header.operation = u32(SEND_MSG_REPLY)
                                 /\ json_valid(body)
                              THEN dispatch_message(json_loads(body), registered_callbacks)
                              ELSE << >>]

ParseMessagesCall ==
    /\ applied.kind = "none"
    /\ \E data \in Payloads :
          applied' = [kind |-> "parse_messages", data |-> data, offset |-> 0,
                      pc |-> "loop", iterations |-> 0, events |-> << >>]
    /\ UNCHANGED << codec_vars, client_vars, sockets, tasks, event >>
    /\ UNCHANGED << enhanced_vars, room_vars, plugin_vars, first_units,
                    sender_vars >>

\* The test of the while loop and, when it holds, one iteration.
ParseMessagesStep ==
    /\ applied.kind = "parse_messages"
    /\ applied.pc = "loop"
    /\ applied.iterations < MaxIterations
    /\ IF ~(applied.offset < Len(applied.data))
       THEN applied' = [applied EXCEPT !.pc = "returned"]
       ELSE LET after == parse_iteration(applied.data, applied.offset,
                                         {"on_danmaku"})
            IN  applied' = [applied EXCEPT
                              !.offset = after.offset,
                              !.pc = IF after.left THEN "returned" ELSE "loop",
                              !.iterations = @ + 1,
                              !.events = @ \o after.events]
    /\ UNCHANGED << codec_vars, client_vars, sockets, tasks, event >>
    /\ UNCHANGED << enhanced_vars, room_vars, plugin_vars, first_units,
                    sender_vars >>

ParseSpec == CodecInit /\ [][ParseMessagesCall \/ ParseMessagesStep]_vars

(***************************************************************************)
(* _receive_loop on a stream the socket hands over in several reads.       *)
(***************************************************************************)
MaxReads == 2

Streams == { frames_bytes(fs) : fs \in UNION { [1 .. n -> ServerFrames] : n \in 1 .. 2 } }

ReceiveStream ==
    /\ applied.kind = "none"
    /\ \E stream \in Streams :
          applied' = [kind |-> "receive", stream |-> stream, position |-> 0,
                      reads |-> << >>, buffer |-> << >>, frames |-> << >>]
    /\ UNCHANGED << codec_vars, client_vars, sockets, tasks, event >>
    /\ UNCHANGED << enhanced_vars, room_vars, plugin_vars, first_units,
                    sender_vars >>

\* One iteration of the loop: recv returns the next size bytes of the
\* stream (what is left of it in the last read), buffer.extend(data), then
\* _handle_packet(buffer) handles frames and deletes what it consumed.
ReceiveRead ==
    /\ applied.kind = "receive"
    /\ applied.position < Len(applied.stream)
    /\ \E size \in 1 .. (Len(applied.stream) - applied.position) :
          /\ Len(applied.reads) = MaxReads - 1
                => size = Len(applied.stream) - applied.position
          /\ LET data == Slice(applied.stream, applied.position,
                               applied.position + size)
                 result == handle_packet(applied.buffer \o data)
             IN  applied' = [applied EXCEPT
                               !.position = @ + size,
                               !.reads = Append(@, size),
                               !.buffer = result.rest,
                               !.frames = @ \o result.frames]
    /\ UNCHANGED << codec_vars, client_vars, sockets, tasks, event >>
    /\ UNCHANGED << enhanced_vars, room_vars, plugin_vars, first_units,
                    sender_vars >>

ReceiveSpec == CodecInit /\ [][ReceiveStream \/ ReceiveRead]_vars

(***************************************************************************)
(* wbi_sign.py: the mixin key.  A key is the sequence of its characters,   *)
(* each a number.                                                          *)
(***************************************************************************)
MIXIN_KEY_ENC_TAB ==
    << 46, 47, 18, 2, 53, 8, 23, 32, 15, 50, 10, 31, 58, 3, 45, 35, 27, 43, 5, 49,
       33, 9, 42, 19, 29, 28, 14, 39, 12, 38, 41, 13, 37, 48, 7, 16, 24, 55, 40,
       61, 26, 17, 0, 1, 60, 51, 30, 4, 22, 25, 54, 21, 56, 59, 6, 63, 57, 62, 11,
       36, 20, 34, 44, 52 >>

get_mixin_key_head(orig_key) == SubSeq(orig_key, 1, 32)

\* reduce appends orig_key[i] for each i of the table, in order; [:32] keeps
\* the first 32 characters.
get_mixin_key(orig_key) ==
    SubSeq([j \in 1 .. Len(MIXIN_KEY_ENC_TAB) |->
               orig_key[MIXIN_KEY_ENC_TAB[j] + 1]], 1, 32)

\* Keys of 64 characters: the character at i is (a * i + b) % 64, all 64
\* different for an odd a, two alternating for a = 32.
MixinKeys ==
    { [i \in 1 .. 64 |-> (a * (i - 1) + b) % 64] :
        a \in {1, 3, 5, 7, 9, 11, 32, 63}, b \in 0 .. 15 }

GetMixinKey ==
    /\ applied.kind = "none"
    /\ \E orig_key \in MixinKeys :
          applied' = [kind |-> "mixin_key", orig_key |-> orig_key,
                      result |-> get_mixin_key(orig_key)]
    /\ UNCHANGED << codec_vars, client_vars, sockets, tasks, event >>
    /\ UNCHANGED << enhanced_vars, room_vars, plugin_vars, first_units,
                    sender_vars >>

MixinSpec == CodecInit /\ [][GetMixinKey]_vars

(***************************************************************************)
(* danmaku_sender.py: the global DanmakuSender and the calls of            *)
(* send_danmaku() on it.  A call runs without interruption up to its first *)
(* await (sign_params, then the POST) and again from the response on; time *)
(* is counted in whole seconds.                                            *)
(***************************************************************************)

MaxSends == 4

MaxTicks == 3

\* The messages sent: two short ones and one longer than max_length.
Texts == { << 1 >>, << 2 >>, [k \in 1 .. max_length + 1 |-> 1] }

\* init_danmaku_sender: bili_jct tells whether the cookies hold a CSRF token.
InitDanmakuSender ==
    /\ ~sender.made
    /\ \E bili_jct \in BOOLEAN :
          sender' = [made |-> TRUE, csrf_token |-> bili_jct,
                     send_history |-> << >>, last_send_time |-> 0]
    /\ UNCHANGED << codec_vars, client_vars, sockets, tasks, event >>
    /\ UNCHANGED << enhanced_vars, room_vars, plugin_vars, first_units,
                    applied, sending >>

\* time.time() grows between two steps of the event loop.
TimePasses ==
    /\ sending.now < min_interval + MaxTicks
    /\ sending' = [sending EXCEPT !.now = @ + 1]
    /\ UNCHANGED << codec_vars, client_vars, sockets, tasks, event >>
    /\ UNCHANGED << enhanced_vars, room_vars, plugin_vars, first_units,
                    applied, sender >>

\* _is_duplicate: the history it leaves and what it returns.
is_duplicate(send_history, message, current_time) ==
    [send_history |-> SelectSeq(send_history,
                        LAMBDA item : current_time - item.time < history_seconds),
     duplicate    |-> Cardinality({ k \in 1 .. Len(send_history) :
                          /\ current_time - send_history[k].time < history_seconds
                          /\ send_history[k].message = message })
                        >= max_duplicate]

\* send() up to "params = await sign_params(params)": the sender it leaves,
\* and whether it has returned a failure or waits for the POST.
send_checks(snd, message, current_time) ==
    IF ~snd.csrf_token
    THEN [sender |-> snd, pc |-> "returned", why |-> "not logged in"]
    ELSE IF current_time - snd.last_send_time < min_interval
    THEN [sender |-> snd, pc |-> "returned", why |-> "too frequent"]
    ELSE IF Len(message) > max_length
    THEN [sender |-> snd, pc |-> "returned", why |-> "too long"]
    ELSE [sender |-> [snd EXCEPT !.send_history =
                        is_duplicate(@, message, current_time).send_history],
          pc     |-> IF is_duplicate(snd.send_history, message,
                                     current_time).duplicate
                     THEN "returned" ELSE "posting",
          why    |-> IF is_duplicate(snd.send_history, message,
                                     current_time).duplicate
                     THEN "duplicate" ELSE ""]

\* send_danmaku(message), up to the first await of send().
SendDanmaku ==
    /\ Len(sending.calls) < MaxSends
    /\ \E message \in Texts :
          LET entered(st) ==
                  /\ sender' = st.sender
                  /\ sending' = [sending EXCEPT !.calls = Append(@,
                        [message |-> message, current_time |-> sending.now,
                         pc |-> st.pc, success |-> FALSE, why |-> st.why])]
          IN  IF ~sender.made
              THEN entered([sender |-> sender, pc |-> "returned",
                            why |-> "no sender"])
              ELSE entered(send_checks(sender, message, sending.now))
    /\ UNCHANGED << codec_vars, client_vars, sockets, tasks, event >>
    /\ UNCHANGED << enhanced_vars, room_vars, plugin_vars, first_units,
                    applied >>

\* send() from the response of the POST on: code 0, another code, or an
\* exception of sign_params, of the POST or of response.json().
PostReturns ==
    /\ \E k \in 1 .. Len(sending.calls),
          outcome \in {"code 0", "code not 0", "raised"} :
          /\ sending.calls[k].pc = "posting"
          /\ sender' =
                IF outcome = "code 0"
                THEN [sender EXCEPT
                        !.send_history =
                            LET appended == Append(@,
                                    [message |-> sending.calls[k].message,
                                     time |-> sending.calls[k].current_time])
                            IN  IF Len(appended) > history_kept
                                THEN SubSeq(appended,
                                            Len(appended) - history_kept + 1,
                                            Len(appended))
                                ELSE appended,
                        !.last_send_time = sending.calls[k].current_time]
                ELSE sender
          /\ sending' = [sending EXCEPT
                           !.calls[k].pc = "returned",
                           !.calls[k].success = (outcome = "code 0"),
                           !.calls[k].why = outcome]
    /\ UNCHANGED << codec_vars, client_vars, sockets, tasks, event >>
    /\ UNCHANGED << enhanced_vars, room_vars, plugin_vars, first_units,
                    applied >>

SenderSpec ==
    CodecInit /\ [][InitDanmakuSender \/ TimePasses \/ SendDanmaku
                      \/ PostReturns]_vars

(***************************************************************************)
(* Claims about the codec.                                                 *)
(***************************************************************************)
\* C1: a call on N valid frames followed by a proper prefix of one more frame
\* handles exactly those N frames, in order, and leaves exactly the prefix.
C1_FramesAndTail ==
    fed.kind = "frames" => handled = fed.frames /\ buffer = fed.tail

\* C2: a call on one corrupted byte followed by one complete valid frame
\* handles that frame and consumes the corrupted byte and the frame.
C2_Resync ==
    fed.kind = "corrupted" => handled = fed.frames /\ buffer = << >>

\* C3: a message-push frame of version 0 whose body is the JSON text of a
\* DANMU_MSG command invokes on_danmaku exactly once, with the command's
\* uid, user name and content.
C3_RawChatDelivered ==
    fed.kind = "chat_raw" =>
        delivered = << [callback |-> "on_danmaku", uid |-> fed.msg.info[3][1],
                        uname |-> fed.msg.info[3][2],
                        content |-> fed.msg.info[2]] >>

(***************************************************************************)
(* Claims about the session.                                               *)
(***************************************************************************)
owner == 1

\* C4: once disconnect() has returned, running is false, ws is None and no
\* task of the client is alive (no loop runs, no connect() is in progress).
C4_QuietAfterDisconnect ==
    tasks[owner].pc = "disconnected" =>
        /\ ~running
        /\ ws = 0
        /\ \A t \in TaskIds \ {owner} : task_done(t)

\* C5: a reconnect sequence never makes more than the maximum number of
\* connect() calls; one that gives up after failed calls has made exactly
\* that many; a successful call resets the attempt counter to 0 and ends the
\* sequence; a sequence that has ended makes no further call.
C5_AttemptsBounded ==
    [][ /\ \A t \in TaskIds : tasks[t].kind = "rc" =>
              /\ tasks'[t].calls <= max_reconnect_attempts
              /\ task_done(t) => tasks'[t] = tasks[t]
        /\ event'.kind = "loop_end" /\ ~event'.was_running =>
              /\ event'.calls = max_reconnect_attempts
              /\ tasks'[event'.task].pc = "done"
        /\ event'.kind = "connected" /\ tasks'[event'.task].kind = "rc" =>
              /\ reconnect_attempts' = 0
              /\ tasks'[event'.task].pc = "done"
        /\ \A i \in 1 .. Len(sequences) :
              /\ sequences'[i].calls <= max_retries
              /\ sequences[i].pc = "done" => sequences'[i] = sequences[i]
        /\ event'.kind = "sequence_end" /\ event'.result = "failed" =>
              /\ retry_count' = max_retries
              /\ event'.calls = max_retries \/ event'.calls = 0
        /\ event'.kind = "sequence_end" /\ event'.result = "reconnected" =>
              /\ retry_count' = 0
              /\ ~is_reconnecting'
              /\ event'.calls <= max_retries
      ]_vars

\* A reconnect loop has given up after the maximum number of failed calls.
C5_Exhausted ==
    /\ event.kind = "loop_end"
    /\ ~event.was_running
    /\ event.calls = max_reconnect_attempts

\* The owner has called disconnect().
DisconnectCalled ==
    tasks[owner].pc \in {"d_wait", "d_close", "d_http", "disconnected"}

\* on_disconnect was called with the reason max_reconnect_attempts_reached.
GaveUp == event.kind = "loop_end" /\ event.notified # << >>

InFlight == { t \in TaskIds : tasks[t].kind = "rc" /\ ~task_done(t) }

\* C7: at most one reconnect sequence is in flight, and a step taken while
\* one is in flight neither starts another sequence nor lowers the attempt
\* counter, unless it ends the sequence.
C7_OneSequence ==
    [][ /\ Cardinality(InFlight') <= 1
        /\ InFlight # {} /\ InFlight' # {} =>
              /\ InFlight' = InFlight
              /\ reconnect_attempts' >= reconnect_attempts
      ]_vars

\* A heartbeat fails to send while a reconnect sequence is in flight.
C7_FailureDuringSequence == event.kind = "hb_error" /\ InFlight # {}

\* The back-off delays of the reconnect sequences of the client.
Delays ==
    { tasks[t].delays : t \in TaskIds } \cup
    { sequences[i].delays : i \in 1 .. Len(sequences) }

base_delay == IF enhanced THEN retry_delay ELSE 2

NonDecreasing(ds) == \A k \in 1 .. Len(ds) - 1 : ds[k] <= ds[k + 1]

\* C8 as stated: the k-th delay of a sequence is min(base_delay * 2^(k-1),
\* 60), so the delays are non-decreasing and at most 60.
C8_DelayDoubles ==
    \A ds \in Delays :
        /\ \A k \in 1 .. Len(ds) : ds[k] = Min(base_delay * (2 ^ (k - 1)), 60)
        /\ NonDecreasing(ds)
        /\ \A k \in 1 .. Len(ds) : ds[k] <= 60

\* C8 as amended: the k-th delay is min(base_delay * 2^(k-1), 60), with
\* base_delay 2 in _reconnect_loop and retry_delay in auto_reconnect, unless
\* exponential_backoff is off in auto_reconnect, where every delay is
\* retry_delay; the delays are non-decreasing, and at most 60 when they double.
C8_DelayByMode ==
    \A ds \in Delays :
        /\ \A k \in 1 .. Len(ds) :
              ds[k] = IF enhanced /\ ~exponential_backoff THEN retry_delay
                      ELSE Min(base_delay * (2 ^ (k - 1)), 60)
        /\ NonDecreasing(ds)
        /\ ~enhanced \/ exponential_backoff => \A k \in 1 .. Len(ds) : ds[k] <= 60

\* A sequence without exponential back-off is at its second delay or later.
C8_ConstantDelay ==
    /\ ~exponential_backoff
    /\ \E i \in 1 .. Len(sequences) : Len(sequences[i].delays) >= 2

\* C9: connect() succeeds only when the first message it received starts
\* with a handshake or auth reply frame.
C9_ReplyBeforeRunning ==
    event.kind = "connected" =>
        /\ Len(event.reply) >= 1
        /\ event.reply[1] \in {HANDSHAKE_REPLY, AUTH_REPLY}

\* C10: after ConnectionClosed in the receive loop running is false, the
\* loop has ended, and one reconnect task was created when auto_reconnect
\* was set, none when not, so that one sequence is in flight; after another
\* error the loop goes on, running is unchanged and no task was created.
C10_ReceiveLoopErrors ==
    /\ event.kind = "rx_closed" =>
          /\ ~running
          /\ task_done(event.task)
          /\ Len(tasks) = event.ntasks + (IF event.auto THEN 1 ELSE 0)
          /\ event.auto =>
                /\ tasks[Len(tasks)].kind = "rc"
                /\ reconnect_task = Len(tasks)
                /\ InFlight = {Len(tasks)}
    /\ event.kind = "rx_error" =>
          /\ running = event.was_running
          /\ ~task_done(event.task)
          /\ Len(tasks) = event.ntasks
          /\ reconnect_task = event.reconnect_task

\* The receive loop has met ConnectionClosed with auto_reconnect set.
C10_ClosedWithAutoReconnect == event.kind = "rx_closed" /\ event.auto

\* The heartbeat loops and the receive loops that have not ended.
LiveLoops(kind) == { t \in TaskIds : tasks[t].kind = kind /\ ~task_done(t) }

\* C11: whenever running is true a heartbeat loop of the session is alive (a
\* failed send of a heartbeat does not end the loop).
C11_HeartbeatSurvives == running => LiveLoops("hb") # {}

\* C12: at most one heartbeat loop and at most one receive loop are alive.
C12_OneLoopEach ==
    /\ Cardinality(LiveLoops("hb")) <= 1
    /\ Cardinality(LiveLoops("rx")) <= 1

\* A reconnect has succeeded: the loops of the new connection are started.
C12_LoopsAfterReconnect ==
    /\ event.kind = "connected"
    /\ tasks[event.task].kind = "rc"
    /\ LiveLoops("hb") # {}
    /\ LiveLoops("rx") # {}

C14_DisconnectEnds ==
    event.kind = "disconnected" =>
        /\ ~running
        /\ ~auto_reconnect
        /\ ws = 0
        /\ heartbeat_task = 0 /\ receive_task = 0 /\ reconnect_task = 0
        /\ callbacks = {}

\* The clients that are connected.
LiveClients == { c \in 1 .. Len(clients) : clients[c].running }

\* C15: at most one client is connected at any time, and a connected client
\* is the one danmaku_client refers to.
C15_OneSession ==
    /\ Cardinality(LiveClients) <= 1
    /\ \A c \in LiveClients : danmaku_client = c

(***************************************************************************)
(* Claims about the plugin manager.                                        *)
(***************************************************************************)

\* The turns of the dispatch in which a handler was invoked.
Invoked == { k \in 1 .. Len(dispatch.log) : dispatch.log[k].invoked }

\* The invoked turn before turn k, 0 when k is the first.
Predecessor(k) ==
    IF \E j \in Invoked : j < k
    THEN CHOOSE j \in Invoked : j < k /\ \A l \in Invoked : l < k => l <= j
    ELSE 0

\* The handlers of the dispatch so far were handed the right dicts: the
\* first the copy of the event, one after a handler that returned a dict
\* that dict, one after a handler that returned None the dict its
\* predecessor was handed, as the predecessor left it.
Threaded ==
    \A k \in Invoked :
        IF Predecessor(k) = 0 THEN dispatch.log[k].data = {}
        ELSE LET before == dispatch.log[Predecessor(k)].outcome
             IN  ~before.raised =>
                     dispatch.log[k].data =
                         IF before.returned THEN before.value
                         ELSE before.left

\* A step of the dispatch loop takes the next plugin of the registry, and
\* invokes it exactly if it is enabled; the dispatch returns when every
\* plugin had its turn.
InOrder ==
    /\ (dispatch.pc = "loop" /\ dispatch'.pc = "loop" /\ dispatch' # dispatch)
           => /\ dispatch.i <= Len(plugins)
              /\ dispatch'.i = dispatch.i + 1
              /\ Len(dispatch'.log) = dispatch.i
              /\ dispatch'.log[dispatch.i].inst = plugins[dispatch.i].inst
              /\ dispatch'.log[dispatch.i].invoked = plugins[dispatch.i].enabled
    /\ (dispatch.pc = "loop" /\ dispatch'.pc = "done")
           => /\ Len(dispatch.log) = Len(plugins)
              /\ \A k \in 1 .. Len(plugins) :
                     dispatch.log[k].inst = plugins[k].inst

\* C16: process_event takes the plugins one at a time in registration
\* order, invokes the enabled ones and skips the others; each handler is
\* handed the payload as its predecessors left it, a returned dict replaces
\* the payload for the later handlers and a returned None leaves it.
C16_PayloadThreaded == [] Threaded /\ [][InOrder]_vars

\* A dispatch over two enabled plugins where the first returned a new dict
\* and the second returned None.
C16_ReplacedThenKept ==
    /\ dispatch.pc = "done"
    /\ Invoked = {1, 2}
    /\ dispatch.log[1].outcome.returned
    /\ dispatch.log[1].outcome.value # dispatch.log[1].data
    /\ ~dispatch.log[2].outcome.returned
    /\ ~dispatch.log[2].outcome.raised
    /\ dispatch.result_data = dispatch.log[1].outcome.value

\* C17: a handler invoked after one that raised is handed the dict as it
\* was before the failing handler ran.
C17_FailureIsolated ==
    \A k \in Invoked :
        (Predecessor(k) # 0 /\ dispatch.log[Predecessor(k)].outcome.raised)
            => dispatch.log[k].data = dispatch.log[Predecessor(k)].data

\* The hooks the last registry operation owes: on_init to a loaded
\* instance, on_enable or on_disable to a toggled one, on_destroy to the
\* instance a reload replaces.
HooksDue ==
    CASE lifecycle.op = "load" -> {hook_call("on_init", lifecycle.new)}
      [] lifecycle.op = "enable" -> {hook_call("on_enable", lifecycle.new)}
      [] lifecycle.op = "disable" -> {hook_call("on_disable", lifecycle.new)}
      [] lifecycle.op = "reload" -> {hook_call("on_init", lifecycle.new),
                                     hook_call("on_destroy", lifecycle.old)}
      [] OTHER -> {}

\* C18: every registry operation invokes the hooks of its boundary.
C18_HooksAtBoundaries == HooksDue \subseteq lifecycle.hooks

(***************************************************************************)
(* Claims about the decoding of message-push bodies.                       *)
(***************************************************************************)

\* The frame of the last call, when the call was FeedMessage.
Pushed == fed.frames[1]

\* The schemes in the order of the fallback: the one of the version, then
\* the lower ones.
SchemesFrom(version, brotli_installed) ==
    CASE version = 3 /\ brotli_installed -> << "brotli", "zlib", "raw" >>
      [] version = 3 /\ ~brotli_installed -> << "zlib", "raw" >>
      [] version = 2 -> << "zlib", "raw" >>
      [] OTHER -> << "raw" >>

\* A body decoded by one scheme.
decoded(scheme, body) ==
    CASE scheme = "brotli" -> brotli_decompress(body)
      [] scheme = "zlib" -> zlib_decompress(body)
      [] scheme = "raw" -> [ok |-> TRUE, data |-> body]

\* The callbacks the inner frames of a decoded body invoke.
events_of(result) ==
    IF result.ok THEN parse_messages(result.data, callbacks).events ELSE << >>

\* The first scheme of the fallback order that does not fail on the body.
first_ok(schemes, body) ==
    CHOOSE k \in 1 .. Len(schemes) :
        /\ decoded(schemes[k], body).ok
        /\ \A j \in 1 .. (k - 1) : ~decoded(schemes[j], body).ok

\* C19: when the scheme of the version fails on the body, the lower schemes
\* are tried in turn, and the frame is dropped only when all of them fail.
C19_FallsBack ==
    (fed.kind = "message" /\ Len(fed.frames) = 1) =>
        LET schemes == SchemesFrom(Pushed.protocol_version, fed.brotli_installed)
        IN  delivered =
                events_of(decoded(schemes[first_ok(schemes, Pushed.body)],
                                  Pushed.body))

\* C20: the body is decoded by the scheme of the frame's version: zlib for
\* version 2, brotli for version 3, or zlib when brotli is not installed,
\* and no decoding for every other version.
C20_DecodedByVersion ==
    (fed.kind = "message" /\ Len(fed.frames) = 1) =>
        LET scheme == SchemesFrom(Pushed.protocol_version,
                                  fed.brotli_installed)[1]
        IN  decoded(scheme, Pushed.body).ok =>
                delivered = events_of(decoded(scheme, Pushed.body))

\* A version-3 frame with a brotli body, brotli installed, has delivered the
\* chat of the inner frame.
C20_BrotliDelivered ==
    /\ fed.kind = "message"
    /\ Pushed.protocol_version = 3
    /\ fed.brotli_installed
    /\ fed.encoding = "brotli"
    /\ fed.shape = "plain"
    /\ delivered = dispatch_message(fed.msg, callbacks)
    /\ delivered # << >>

(***************************************************************************)
(* Claims about the payload of a message-push frame.                       *)
(***************************************************************************)

\* The payload of the last call was encoded with the scheme of the version
\* of its frames.
Matched ==
    /\ fed.kind = "message"
    /\ fed.encoding = SchemesFrom(Pushed.protocol_version,
                                  fed.brotli_installed)[1]

\* C21: the inner frames of a payload are split like the frames of a
\* buffer: an inner frame of version 2 is inflated and split again, so the
\* command it holds is dispatched, and an inner frame whose header fails
\* the validation (header_length 17) is not dispatched.
C21_InnerResplit ==
    Matched =>
        /\ fed.shape = "compressed"
               => delivered = dispatch_message(fed.msg, callbacks)
        /\ fed.shape = "bad_header" => delivered = << >>

\* C22: a malformed command in front of a chat command (a text that is no
\* JSON, a JSON text that is no object) is dropped alone: the chat command
\* behind it is dispatched.
C22_OnlyMalformedDropped ==
    (Matched /\ fed.shape \in {"broken_then", "number_then"})
        => delivered = dispatch_message(fed.msg, callbacks)

\* C23: the callbacks are invoked in the order of the frames of the stream
\* and, within a payload, in the order of its inner frames.
C23_ArrivalOrder ==
    (Matched /\ fed.shape \in {"two_inner", "two_frames"})
        => delivered = dispatch_message(fed.msg, callbacks)
                         \o dispatch_message(fed.msg2, callbacks)

\* Two frames with different chat commands were handled, first the first.
C23_TwoFramesInOrder ==
    /\ Matched
    /\ fed.shape = "two_frames"
    /\ fed.msg # fed.msg2
    /\ Len(delivered) = 2
    /\ delivered[1].content = fed.msg.info[2]
    /\ delivered[2].content = fed.msg2.info[2]

(***************************************************************************)
(* Claims about the scan of _handle_packet.                                *)
(***************************************************************************)

\* C24: a header is accepted only with 16 <= packet_length <= 10000,
\* header_length = 16 and 0 <= operation <= 1000; a scan tests at most 16
\* offsets; there are never more than 5 single-byte skips without a frame
\* between them; after 5 the call returns with the buffer emptied; and
\* every call returns.
C24_ScanBounded ==
    /\ [](/\ \A i \in 1 .. Len(scan.accepted) :
               LET h == scan.accepted[i] IN
               /\ h.packet_length.hi = 0
               /\ h.packet_length.lo \in 16 .. 10000
               /\ h.header_length = 16
               /\ h.operation.hi = 0
               /\ h.operation.lo \in 0 .. 1000
          /\ scan.tested <= 16
          /\ scan.skips <= 5)
    /\ (scan.skips = 5)
           ~> (scan.pc = "returned" /\ scan.skips = 5 /\ scan.buffer = << >>)
    /\ (scan.pc = "loop") ~> (scan.pc = "returned")

\* A frame behind 20 bytes of noise is given up: the call has skipped five
\* bytes and returned with the buffer emptied.
C24_GaveUp ==
    /\ scan.pc = "returned"
    /\ scan.skips = 5
    /\ scan.buffer = << >>
    /\ Len(scan.input) >= 40
    /\ scan.accepted = << >>

(***************************************************************************)
(* Claims about PacketHeader.                                              *)
(***************************************************************************)

\* C25: from_bytes(h.to_bytes()) has the five fields of h, and to_bytes
\* yields 16 bytes: the fields in the order packet_length, header_length,
\* protocol_version, operation, sequence_id, each with its most
\* significant byte first.
C25_RoundTrip ==
    packed.kind = "header" =>
        LET b == packed.bytes
            h == packed.h
            word(i) == [hi |-> b[i] * 256 + b[i + 1],
                        lo |-> b[i + 2] * 256 + b[i + 3]]
            half(i) == b[i] * 256 + b[i + 1]
        IN  /\ packed.back = h
            /\ Len(b) = 16
            /\ \A i \in 1 .. 16 : b[i] \in 0 .. 255
            /\ word(1) = h.packet_length
            /\ half(5) = h.header_length
            /\ half(7) = h.protocol_version
            /\ word(9) = h.operation
            /\ word(13) = h.sequence_id

\* A header whose five fields differ, each with bytes that differ, has
\* been packed and read back.
C25_DistinctFields ==
    /\ packed.kind = "header"
    /\ packed.h.packet_length = [hi |-> 258, lo |-> 772]
    /\ packed.h.header_length = 16
    /\ packed.h.protocol_version = 258
    /\ packed.h.operation = [hi |-> 65535, lo |-> 65535]
    /\ packed.h.sequence_id = u32(16)
    /\ packed.back = packed.h

(***************************************************************************)
(* Claims about the heartbeat reply.                                       *)
(***************************************************************************)

\* C26: a heartbeat reply with a body of 4 bytes invokes on_online exactly
\* once, with the big-endian unsigned value of the 4 bytes.
C26_OnlineOnce ==
    (fed.kind = "heartbeat" /\ fed.size = 4) =>
        SelectSeq(delivered, LAMBDA e : e.callback = "on_online")
            = << [callback |-> "on_online", online |-> fed.online] >>

\* The stream of an authentication reply, a heartbeat reply with 42 and a
\* chat command has invoked on_online with 42 and then on_danmaku.
C26_FortyTwo ==
    /\ fed.kind = "heartbeat"
    /\ fed.size = 4
    /\ fed.amid
    /\ fed.online = [hi |-> 0, lo |-> 42]
    /\ Len(delivered) = 2
    /\ delivered[1] = [callback |-> "on_online", online |-> [hi |-> 0, lo |-> 42]]
    /\ delivered[2].callback = "on_danmaku"

(***************************************************************************)
(* Claims about the lite record decoder.                                   *)
(***************************************************************************)

\* The fields of the last record that can be read: the whole fields in
\* front of the first field of an unknown wire type.
Readable ==
    LET whole == IF parsed.cut > 0
                 THEN SubSeq(parsed.fields, 1, Len(parsed.fields) - 1)
                 ELSE parsed.fields
        stops == { k \in 1 .. Len(whole) : whole[k].kind = "unknown_wire" }
    IN  IF stops = {} THEN whole ELSE SubSeq(whole, 1, MinOf(stops) - 1)

\* The last readable field of a kind that carries a key, 0 when none does.
Carrier(kind, key) ==
    MaxOf({0} \cup { k \in 1 .. Len(Readable) :
                       Readable[k].kind = kind /\ Readable[k].key = key })

\* The number the readable fields carry for a key, or its default.
Carried(key, default) ==
    IF Carrier("known", key) = 0 THEN default
    ELSE Readable[Carrier("known", key)].num

\* C27: parse_interact_word_v2 returns a structure for every input, never
\* None, and a field that could not be read (the text is no base64, the
\* field is cut, it lies behind a field of an unsupported wire type) has
\* its default: uid 0, uname '', msg_type 1, timestamp 0.
C27_DefaultFilled ==
    parsed.kind = "record" =>
        /\ ~parsed.result.none
        /\ parsed.result.uid = Carried("uid", 0)
        /\ parsed.result.msg_type = Carried("msg_type", 1)
        /\ parsed.result.timestamp = Carried("timestamp", 0)
        /\ parsed.result.uname =
              IF Carrier("known", "uname") # 0
              THEN Readable[Carrier("known", "uname")].text
              ELSE IF Carrier("nested", "uname") # 0
              THEN Readable[Carrier("nested", "uname")].text
              ELSE << >>

\* C28: a known field behind a field with an unknown number or an unknown
\* wire type is extracted.
C28_UnknownSkipped ==
    ( /\ parsed.kind = "record"
      /\ parsed.cut = 0
      /\ ~parsed.clipped
      /\ Len(parsed.fields) = 2
      /\ parsed.fields[1].kind \in {"unknown_number", "unknown_wire"}
      /\ parsed.fields[2].kind = "known" ) =>
        LET known == parsed.fields[2] IN
        /\ ~parsed.result.none
        /\ known.key = "uid" => parsed.result.uid = known.num
        /\ known.key = "msg_type" => parsed.result.msg_type = known.num
        /\ known.key = "timestamp" => parsed.result.timestamp = known.num
        /\ known.key = "uname" => parsed.result.uname = known.text

(***************************************************************************)
(* Claims about _dispatch_message.                                         *)
(***************************************************************************)

\* C29: a command whose cmd is not a recognized one invokes no callback and
\* no plugin and leaves user_first_seen, user_enter_history, buffer and
\* running as they were.
C29_UnrecognizedDropped ==
    [][ (/\ dispatched'.n = dispatched.n + 1
         /\ dispatched'.cmd \notin {"DANMU_MSG", "INTERACT_WORD_V2"})
          => /\ dispatched'.events = << >>
             /\ UNCHANGED << user_first_seen, user_enter_history, buffer,
                             running >> ]_vars

\* An unrecognized command was dropped by a client that had seen a user.
C29_DroppedAfterChat ==
    /\ dispatched.n = 2
    /\ dispatched.cmd = "NEW_CMD"
    /\ dispatched.events = << >>
    /\ user_first_seen = {<< 7, txt_ab >>}
    /\ user_enter_history = {<< 7, txt_ab >>}

\* C30: the uid and the name of an invocation are those of the command, the
\* name possibly shortened, or they are absent (0, ''); no other name is
\* put in their place.
C30_NothingFabricated ==
    \A k \in 1 .. Len(dispatched.events) :
        LET e == dispatched.events[k]
            name == dispatched.carried.uname
        IN  /\ e.uid \in {0, dispatched.carried.uid}
            /\ \/ e.uname = << >>
               \/ \E a \in 1 .. Len(name), b \in 1 .. Len(name) :
                      e.uname = SubSeq(name, a, b)

(***************************************************************************)
(* Claims about the mixin key.                                             *)
(***************************************************************************)

\* C31: MIXIN_KEY_ENC_TAB is a permutation of 0..63, and the mixin key of a
\* key k of 64 characters has 32 characters, the j-th being
\* k[MIXIN_KEY_ENC_TAB[j]] for j = 0..31.
C31_MixinKey ==
    /\ Len(MIXIN_KEY_ENC_TAB) = 64
    /\ { MIXIN_KEY_ENC_TAB[j] : j \in 1 .. 64 } = 0 .. 63
    /\ applied.kind = "mixin_key" =>
          /\ Len(applied.result) = 32
          /\ \A j \in 0 .. 31 :
                applied.result[j + 1]
                    = applied.orig_key[MIXIN_KEY_ENC_TAB[j + 1] + 1]

\* The mixin key of the key 0, 1, ..., 63 is the head of the table.
C31_TableHead ==
    /\ applied.kind = "mixin_key"
    /\ applied.orig_key = [i \in 1 .. 64 |-> i - 1]
    /\ applied.result = SubSeq(MIXIN_KEY_ENC_TAB, 1, 32)

(***************************************************************************)
(* Claims about the loop of _parse_messages.                               *)
(***************************************************************************)

\* C32: every iteration of the while loop of _parse_messages strictly
\* advances the offset or leaves the loop, whatever total_length the inner
\* header declares (0 and values below 16 included).
C32_IterationAdvances ==
    [][(applied.kind = "parse_messages" /\ applied'.kind = "parse_messages"
          /\ applied'.iterations = applied.iterations + 1)
         => (applied'.offset > applied.offset \/ applied'.pc = "returned")]_vars

(***************************************************************************)
(* Claims about the reads of a stream.                                     *)
(***************************************************************************)

\* C33: however a stream of valid frames is cut into reads, once the last
\* read was appended and handled the frames handled are the ones a single
\* read of the whole stream handles, in the same order, and the buffer is
\* empty.
C33_ChunkingIrrelevant ==
    (applied.kind = "receive" /\ applied.position = Len(applied.stream))
      => /\ applied.frames = handle_packet(applied.stream).frames
         /\ applied.buffer = << >>

(***************************************************************************)
(* Claims about connect().                                                 *)
(***************************************************************************)
ConnectPcs == {"c_http", "c_open", "c_auth", "c_reply", "c_timeout_close",
               "c_fail_close"}

\* The step in which the connect() call of r returns False: r leaves
\* connect() neither by a CancelledError nor with success.
ReturnsFailure(r) ==
    /\ tasks[r].pc \in ConnectPcs
    /\ tasks'[r].pc \notin ConnectPcs
    /\ event'.kind # "connected"
    /\ ~(tasks[r].cancel /\ tasks[r].pc # "c_fail_close")

C35_OneHttpClient ==
    /\ Cardinality(http_open) <= 1
    /\ event.kind = "disconnected" => http_open = {}

(***************************************************************************)
(* Claims about the session of an EnhancedDanmakuClient.                   *)
(***************************************************************************)

\* C36: when the receive loop of an EnhancedDanmakuClient detects a closed
\* connection while running is true and enable_auto_reconnect is set, the
\* auto_reconnect coroutine has been made the reconnect task.
C36_ReconnectStarted ==
    (/\ enhanced
     /\ event.kind = "rx_closed"
     /\ event.detected
     /\ event.was_running
     /\ enable_auto_reconnect)
      => /\ reconnect_task # 0
         /\ tasks[reconnect_task].kind = "auto_reconnect"

(***************************************************************************)
(* Claims about the events of one client.                                  *)
(***************************************************************************)

\* C37: over any sequence of chat, gift, paid-message, subscription and
\* viewer-join commands one client handles, the user-enter event of a pair
\* (uid, cleaned name) is handed to the plugins at most once, and
\* user_enter_history and user_first_seen only grow: an entry of
\* user_first_seen is never removed and no uid has two entries.
C37_EnterOnce ==
    /\ [](applied.kind = "events" =>
            /\ \A i, j \in 1 .. Len(applied.entered) :
                  (/\ applied.entered[i].uid = applied.entered[j].uid
                   /\ applied.entered[i].uname = applied.entered[j].uname)
                    => i = j
            /\ \A a, b \in user_first_seen : a[1] = b[1] => a = b)
    /\ [][/\ user_enter_history \subseteq user_enter_history'
          /\ user_first_seen \subseteq user_first_seen']_vars

\* A user who had entered under the name ab sends a chat message under the
\* name ab with blanks around it to plugins that listen: no second event.
C37_SecondSuppressed ==
    /\ applied.kind = "events"
    /\ applied.n = 2
    /\ applied.listening
    /\ applied.msg.cmd = "INTERACT_WORD_V2"
    /\ applied.events = << [callback |-> "on_interact", uid |-> 7,
                            uname |-> << 32 >> \o txt_ab \o << 32 >>] >>
    /\ applied.entered = << [callback |-> "plugin.on_interact", uid |-> 7,
                             uname |-> txt_ab] >>
    /\ user_first_seen = {<< 7, txt_ab >>}

\* The defaults the normalizer declares.
Defaults == [price |-> 0, num |-> 1, total_coin |-> 0, timestamp |-> 0,
             start_time |-> 0]

\* The callback of a command and the data fields its event reports.
Normalized ==
    [SEND_GIFT |-> [callback |-> "on_gift",
                    fields |-> {"num", "price", "total_coin", "timestamp"}],
     SUPER_CHAT_MESSAGE |-> [callback |-> "on_superchat",
                             fields |-> {"price", "start_time"}],
     GUARD_BUY |-> [callback |-> "on_guard",
                    fields |-> {"price", "num", "start_time"}]]

\* C38: a SEND_GIFT, SUPER_CHAT_MESSAGE or GUARD_BUY command with any
\* subset of its data fields missing still has its event emitted, once,
\* with every field that is present as the command holds it and every
\* missing field at its default: price 0, num 1, total_coin 0, timestamp 0,
\* start_time 0.
C38_MissingFieldsDefaulted ==
    (applied.kind = "events" /\ applied.msg.cmd \in DOMAIN Normalized)
      => LET how == Normalized[applied.msg.cmd]
             data == IF "data" \in DOMAIN applied.msg THEN applied.msg.data
                     ELSE << >>
             emitted == SelectSeq(applied.events,
                                  LAMBDA e : e.callback = how.callback)
         IN  /\ Len(emitted) = 1
             /\ \A k \in how.fields :
                   emitted[1][k] = IF k \in DOMAIN data THEN data[k]
                                   ELSE Defaults[k]

\* A SEND_GIFT command without any data field: the event reports num 1 and
\* price, total_coin and timestamp 0.
C38_GiftWithoutFields ==
    /\ applied.kind = "events"
    /\ applied.msg = [cmd |-> "SEND_GIFT", data |-> << >>]
    /\ applied.events = << [callback |-> "on_gift", uid |-> 0, uname |-> << >>,
                            num |-> 1, price |-> 0, total_coin |-> 0,
                            timestamp |-> 0] >>

(***************************************************************************)
(* Claims about the numbers of a record.                                   *)
(***************************************************************************)

\* C39: the canonical varint of a number v below 2^63 in field 1 (5, 6) of
\* an otherwise empty record is decoded to uid (msg_type, timestamp) = v,
\* the other keys keep their defaults, and the loop has read every byte of
\* the varint, one per iteration.
C39_VarintDecoded ==
    applied.kind = "number" =>
        LET v == IF applied.v.hi = 0 /\ applied.v.mid = 0 THEN applied.v.lo
                 ELSE applied.v
            result == applied.result
        IN  /\ ~result.none
            /\ applied.read.i = Len(applied.pb_bytes) - 1
            /\ applied.read.value = v
            /\ result.uid = IF applied.field_num = 1 THEN v ELSE 0
            /\ result.msg_type = IF applied.field_num = 5 THEN v ELSE 1
            /\ result.timestamp = IF applied.field_num = 6 THEN v ELSE 0

\* 2^63 - 1 in field 1: nine bytes, the last 127.
C39_Largest ==
    /\ applied.kind = "number"
    /\ applied.field_num = 1
    /\ applied.pb_bytes = << 8, 255, 255, 255, 255, 255, 255, 255, 255, 127 >>
    /\ applied.result.uid = [hi |-> 127, mid |-> 2 ^ 28 - 1, lo |-> 2 ^ 28 - 1]

(***************************************************************************)
(* Claims about the sender.                                                *)
(***************************************************************************)

\* C40: whatever the interleaving of the send() calls on one sender, two
\* calls that returned success entered at least min_interval seconds
\* apart, and last_send_time never decreases.
C40_SendsSpaced ==
    /\ [](\A j, k \in 1 .. Len(sending.calls) :
            (/\ j < k
             /\ sending.calls[j].success
             /\ sending.calls[k].success)
               => sending.calls[k].current_time
                    - sending.calls[j].current_time >= min_interval)
    /\ [][(sender.made /\ sender'.made)
            => sender'.last_send_time >= sender.last_send_time]_vars

====
